---------------------------- MODULE Spec2Model ----------------------------
(***************************************************************************)
(* A model of go-git (VictorLowther/go-git): the lazily loaded config and  *)
(* ref caches of a Repo, the merge/rebase wrapper with its rollback, and   *)
(* the concurrent fetch fan-out, each layered over the external git tool.  *)
(*                                                                         *)
(* Go strings are modelled as sequences of atoms.  An atom is either a     *)
(* separator character (".", "/", " ", newline, NUL) or a word without     *)
(* separators; "foobar" is <<"foo","bar">>, so that prefix tests           *)
(* (strings.HasPrefix) see that "foo" is a prefix of "foobar".             *)
(*                                                                         *)
(* The external tool is an opaque collaborator: every invocation can       *)
(* fail, whatever the state of the backing store.                          *)
(***************************************************************************)
EXTENDS Naturals, Sequences, FiniteSets, TLC

VARIABLES
    cfg,        \* Repo.cfg : the config cache, [loaded, m]; loaded = FALSE is Go's nil map
    gitConfig,  \* the backing store's configuration, key -> value
    refs,       \* Repo.refs : the ref cache, [loaded, m]; m maps a path to a Ref [SHA, Path]
    gitRefs,    \* the backing store's refs, path -> SHA
    gitHead,    \* the backing store's HEAD, [sym, val]: symbolic (a path) or detached (a SHA)
    hd,         \* the Ref handle the caller holds: [set, SHA, Path, live]
    mr,         \* the merge/rebase call in progress (mergeRebaseWrapper's locals)
    pc,         \* where the merge/rebase call in progress stands
    fetch,      \* the Fetch call in progress: the orchestrator's locals and its channel
    workers,    \* the fetchOne goroutines, one per launched position
    fault,      \* "none", or "panic" once the process has panicked
    last        \* the last finished operation: [op, args, ret, cmds, fault, pre]

vars == <<cfg, gitConfig, refs, gitRefs, gitHead, hd, mr, pc, fetch, workers, fault, last>>

-----------------------------------------------------------------------------
(* Go strings as sequences of atoms.                                       *)

Dot == "."
Slash == "/"
Space == " "
Newline == "\n"
Nul == "\\0"
Tab == "\t"

EmptyStr == <<>>

\* A one-word string.
S(w) == <<w>>

\* strings.HasPrefix
HasPrefix(s, p) ==
    /\ Len(p) <= Len(s)
    /\ SubSeq(s, 1, Len(p)) = p

\* The position of the first occurrence of the one-atom separator sep in s, 0 if none.
RECURSIVE IndexFrom(_, _, _)
IndexFrom(s, sep, i) ==
    IF i > Len(s) THEN 0
    ELSE IF s[i] = sep THEN i
    ELSE IndexFrom(s, sep, i + 1)

Index(s, sep) == IndexFrom(s, sep, 1)

\* strings.Split(s, sep) for a one-character sep: always at least one part.
RECURSIVE Split(_, _)
Split(s, sep) ==
    LET i == Index(s, sep) IN
    IF i = 0 THEN <<s>>
    ELSE <<SubSeq(s, 1, i - 1)>> \o Split(SubSeq(s, i + 1, Len(s)), sep)

\* strings.SplitN(s, sep, n) for n >= 1: at most n parts, the last one unsplit.
RECURSIVE SplitN(_, _, _)
SplitN(s, sep, n) ==
    LET i == Index(s, sep) IN
    IF n <= 1 \/ i = 0 THEN <<s>>
    ELSE <<SubSeq(s, 1, i - 1)>> \o SplitN(SubSeq(s, i + 1, Len(s)), sep, n - 1)

\* strings.Join(parts, sep)
RECURSIVE Join(_, _)
Join(parts, sep) ==
    IF Len(parts) = 0 THEN EmptyStr
    ELSE IF Len(parts) = 1 THEN parts[1]
    ELSE parts[1] \o <<sep>> \o Join(Tail(parts), sep)

IsSpace(a) == a \in {Space, Newline, Tab}

RECURSIVE TrimLeft(_)
TrimLeft(s) ==
    IF Len(s) > 0 /\ IsSpace(s[1]) THEN TrimLeft(Tail(s)) ELSE s

RECURSIVE TrimRight(_)
TrimRight(s) ==
    IF Len(s) > 0 /\ IsSpace(s[Len(s)]) THEN TrimRight(SubSeq(s, 1, Len(s) - 1)) ELSE s

\* A TrimSpace that trims nothing.
TrimSpaceNot(s) == s

\* strings.TrimSpace
TrimSpace(s) == TrimRight(TrimLeft(s))

-----------------------------------------------------------------------------
(* Go maps as functions.                                                   *)

EmptyMap == <<>>

MapPut(m, k, v) == [x \in DOMAIN m \cup {k} |-> IF x = k THEN v ELSE m[x]]

MapDelete(m, k) == [x \in DOMAIN m \ {k} |-> m[x]]

\* A cache that has not been loaded: Go's nil map.
NilCache == [loaded |-> FALSE, m |-> EmptyMap]


-----------------------------------------------------------------------------
(* The machine: the state an operation works on, threaded through the      *)
(* calls it makes.  cmds is the list of external commands the operation    *)
(* has issued so far and ret its return value.  The oracle of an operation *)
(* is the set of positions in cmds whose command fails.                    *)

NoRet == [none |-> TRUE]

Machine ==
    [cfg |-> cfg, gitConfig |-> gitConfig, refs |-> refs, gitRefs |-> gitRefs,
     gitHead |-> gitHead, hd |-> hd, cmds |-> <<>>, fault |-> "none", ret |-> NoRet]

Cmd(name, args) == [cmd |-> name, args |-> args]

\* cmd.Run() of the next command: it succeeds unless the oracle fails its position.
NextOk(st, fails) == (Len(st.cmds) + 1) \notin fails

Issue(st, c) == [st EXCEPT !.cmds = Append(@, c)]

\* panic / log.Panic: the operation stops where it is.
Panic(st) == [st EXCEPT !.fault = "panic"]

Return(st, r) == [st EXCEPT !.ret = r]

-----------------------------------------------------------------------------
(* The configuration: the backing store and `git config`.                  *)

\* `git config -l -z`: one record key LF value NUL per assignment.
RECURSIVE ConfigDump(_)
ConfigDump(store) ==
    IF DOMAIN store = {} THEN EmptyStr
    ELSE LET k == CHOOSE x \in DOMAIN store : TRUE IN
         k \o <<Newline>> \o store[k] \o <<Nul>> \o ConfigDump(MapDelete(store, k))

\* The section a key is assigned in: the key without its last segment.
SectionOf(k) ==
    LET parts == Split(k, Dot) IN Join(SubSeq(parts, 1, Len(parts) - 1), Dot)

\* `git config --unset-all k`
GitUnsetAll(store, k) == MapDelete(store, k)

\* `git config --remove-section s`
GitRemoveSection(store, s) ==
    [x \in {y \in DOMAIN store : SectionOf(y) # s} |-> store[x]]

\* `git config --add k v`
GitConfigAdd(store, k, v) == MapPut(store, k, v)

-----------------------------------------------------------------------------
(* config.go: the config cache.                                            *)

\* The loop of read_config over the NUL-separated records.
RECURSIVE ParseRecords(_, _)
ParseRecords(lines, m) ==
    IF Len(lines) = 0 THEN m
    ELSE LET parts == SplitN(lines[1], Newline, 2)
             k == TrimSpace(parts[1])
             v == TrimSpace(parts[2])
         IN IF Len(parts) # 2 THEN ParseRecords(Tail(lines), m)
            ELSE IF k = EmptyStr THEN ParseRecords(Tail(lines), m)
            ELSE ParseRecords(Tail(lines), MapPut(m, k, v))

ParseConfig(dump) == ParseRecords(Split(dump, Nul), EmptyMap)

\* A read_config that takes an empty cache for an absent one.
read_configIfEmpty(st, fails) ==
    IF st.cfg.loaded /\ DOMAIN st.cfg.m # {} THEN st
    ELSE LET ok == NextOk(st, fails)
             s1 == Issue(st, Cmd("config -l -z", <<>>))
         IN IF ~ok THEN Panic(s1)
            ELSE [s1 EXCEPT !.cfg = [loaded |-> TRUE,
                                     m |-> ParseConfig(ConfigDump(s1.gitConfig))]]

read_config(st, fails) ==
    IF st.cfg.loaded THEN st
    ELSE LET ok == NextOk(st, fails)
             s1 == Issue(st, Cmd("config -l -z", <<>>))
         IN IF ~ok THEN Panic(s1)
            ELSE [s1 EXCEPT !.cfg = [loaded |-> TRUE,
                                     m |-> ParseConfig(ConfigDump(s1.gitConfig))]]

ReloadConfig(st) == [st EXCEPT !.cfg = NilCache]

\* v, f = r.cfg[k]
Lookup(m, k) ==
    IF k \in DOMAIN m THEN [v |-> m[k], f |-> TRUE] ELSE [v |-> EmptyStr, f |-> FALSE]

Get(st, k, fails) ==
    LET s1 == read_config(st, fails) IN
    IF s1.fault # "none" THEN s1 ELSE Return(s1, Lookup(s1.cfg.m, k))

\* A Find that returns the whole cache.
FindInAll(m, prefix) == m

\* The loop of Find over the cache.
FindIn(m, prefix) == [x \in {y \in DOMAIN m : HasPrefix(y, prefix)} |-> m[x]]

Find(st, prefix, fails) ==
    LET s1 == read_config(st, fails) IN
    IF s1.fault # "none" THEN s1 ELSE Return(s1, FindIn(s1.cfg.m, prefix))

maybeKillSection(st, prefix, fails) ==
    LET s1 == Find(st, prefix, fails) IN
    IF s1.fault # "none" THEN s1
    ELSE IF DOMAIN s1.ret # {} THEN s1
    ELSE LET ok == NextOk(s1, fails)
             s2 == Issue(s1, Cmd("config --remove-section", <<prefix>>))
         IN IF ~ok THEN Panic(s2)
            ELSE [s2 EXCEPT !.gitConfig = GitRemoveSection(@, prefix)]

\* delete(r.cfg, k)
CacheDelete(st, k) == [st EXCEPT !.cfg.m = MapDelete(@, k)]

\* The section Unset probes after removing k.
UnsetSection(k) ==
    LET parts == Split(k, Dot) IN
    IF Len(parts) = 1 THEN k
    ELSE IF Len(parts) = 2 THEN parts[1]
    ELSE Join(SubSeq(parts, 1, Len(parts) - 1), Dot)

Unset(st, k, fails) ==
    LET s1 == read_config(st, fails)
        s2 == Get(s1, k, fails)
    IN IF s1.fault # "none" THEN s1
       ELSE IF ~s2.ret.f THEN Return(s2, NoRet)
       ELSE LET s3 == CacheDelete(s2, k)
                ok == NextOk(s3, fails)
                s4 == Issue(s3, Cmd("config --unset-all", <<k>>))
            IN IF ~ok THEN Panic(s4)
               ELSE Return(maybeKillSection([s4 EXCEPT !.gitConfig = GitUnsetAll(@, k)],
                                            UnsetSection(k), fails),
                           NoRet)

\* A Set that leaves the cache without the new value.
CachePutDropped(st, k, v) == st

\* r.cfg[k] = v; an assignment to a nil map panics.
CachePut(st, k, v) ==
    IF ~st.cfg.loaded THEN Panic(st) ELSE [st EXCEPT !.cfg.m = MapPut(@, k, v)]

Set(st, k, v, fails) ==
    LET AfterUnset(s1) ==
            IF s1.fault # "none" THEN s1
            ELSE LET ok == NextOk(s1, fails)
                     s2 == Issue(s1, Cmd("config --add", <<k, v>>))
                 IN IF ~ok THEN Panic(s2)
                    ELSE CachePut([s2 EXCEPT !.gitConfig = GitConfigAdd(@, k, v)], k, v)
    IN AfterUnset(Unset(st, k, fails))

-----------------------------------------------------------------------------
(* Finishing an operation: the machine becomes the state.                  *)

NoHandle == [set |-> FALSE, SHA |-> EmptyStr, Path |-> EmptyStr, live |-> FALSE]

NoMerge == [op |-> "none"]

NoFetch == [pc |-> "idle"]

NoLast ==
    [op |-> "none", args |-> <<>>, ret |-> NoRet, cmds |-> <<>>, fault |-> "none",
     pre |-> NoRet]

\* No call is in progress and the process is alive.
Idle == fault = "none" /\ pc = "idle" /\ fetch.pc = "idle"

\* pre is what the operation's record keeps of the state it was called in; the
\* frame of an earlier merge or rebase is dropped.
CommitWith(st, op, args, pre) ==
    /\ cfg' = st.cfg
    /\ gitConfig' = st.gitConfig
    /\ refs' = st.refs
    /\ gitRefs' = st.gitRefs
    /\ gitHead' = st.gitHead
    /\ hd' = st.hd
    /\ fault' = st.fault
    /\ last' = [op |-> op, args |-> args, ret |-> st.ret, cmds |-> st.cmds,
                fault |-> st.fault, pre |-> pre]
    /\ mr' = NoMerge
    /\ UNCHANGED <<pc, fetch, workers>>

Commit(st, op, args) == CommitWith(st, op, args, NoRet)

-----------------------------------------------------------------------------
(* The configuration operations a caller can invoke.                       *)

KeyBranchFooRemote == <<"branch", Dot, "foo", Dot, "remote">>
KeyBranchFooMerge == <<"branch", Dot, "foo", Dot, "merge">>
KeyBranchFoobarRemote == <<"branch", Dot, "foo", "bar", Dot, "remote">>
KeyUserName == <<"user", Dot, "name">>

ConfigKeys == {KeyBranchFooRemote, KeyBranchFooMerge, KeyBranchFoobarRemote, KeyUserName}

ConfigValues == {S("x"), S("y")}

ConfigPrefixes == {<<"branch", Dot>>, <<"branch", Dot, "foo">>, <<"user", Dot>>}

\* Every configuration over the keys and values of the model.
ConfigStores == UNION {[ks -> ConfigValues] : ks \in SUBSET ConfigKeys}

\* What a config call keeps of the state it was called in.
ConfigPre == [cfg |-> cfg, gitConfig |-> gitConfig]

DoGet ==
    \E k \in ConfigKeys, fails \in SUBSET {1} :
        Idle /\ CommitWith(Get(Machine, k, fails), "Get", <<k>>, ConfigPre)

DoFind ==
    \E p \in ConfigPrefixes, fails \in SUBSET {1} :
        Idle /\ CommitWith(Find(Machine, p, fails), "Find", <<p>>, ConfigPre)

\* Unset issues at most three commands: the dump, the removal, the section removal.
DoUnset ==
    \E k \in ConfigKeys, fails \in SUBSET (1..3) :
        Idle /\ CommitWith(Unset(Machine, k, fails), "Unset", <<k>>, ConfigPre)

\* Set issues at most four commands: those of Unset and the append.
DoSet ==
    \E k \in ConfigKeys, v \in ConfigValues, fails \in SUBSET (1..4) :
        Idle /\ Commit(Set(Machine, k, v, fails), "Set", <<k, v>>)

DoReloadConfig ==
    Idle /\ Commit(ReloadConfig(Machine), "ReloadConfig", <<>>)

\* No call has been made yet.
InitIdle ==
    /\ mr = NoMerge
    /\ pc = "idle"
    /\ fetch = NoFetch
    /\ workers = <<>>
    /\ fault = "none"
    /\ last = NoLast

\* A repository whose refs play no part.
InitRest ==
    /\ refs = NilCache
    /\ gitRefs = EmptyMap
    /\ gitHead = [sym |-> TRUE, val |-> EmptyStr]
    /\ hd = NoHandle
    /\ InitIdle

InitConfig ==
    /\ cfg = NilCache
    /\ gitConfig \in ConfigStores
    /\ InitRest

NextConfig == DoGet \/ DoFind \/ DoUnset \/ DoSet \/ DoReloadConfig

SpecConfig == InitConfig /\ [][NextConfig]_vars

-----------------------------------------------------------------------------
(* C1: in every reachable state, Set(k, v) followed by Get(k) returns      *)
(* (v, true), and Unset(k) followed by Get(k) returns (_, false).  The     *)
(* state right after a Set or an Unset that returned is the state the Get  *)
(* runs in, whatever the outcome of the commands Get may issue.            *)

GetReturns(k, r) ==
    \A fails \in SUBSET {1} :
        LET g == Get(Machine, k, fails) IN g.fault = "none" => r = g.ret

C1_ConfigRoundTrip ==
    /\ (last.op = "Set" /\ last.fault = "none")
          => GetReturns(last.args[1], [v |-> last.args[2], f |-> TRUE])
    /\ (last.op = "Unset" /\ last.fault = "none")
          => GetReturns(last.args[1], [v |-> EmptyStr, f |-> FALSE])

\* A Set that replaced an existing assignment has returned.
C1_Witness ==
    /\ last.op = "Set"
    /\ last.fault = "none"
    /\ \E i \in 1..Len(last.cmds) : last.cmds[i].cmd = "config --unset-all"
    /\ cfg.loaded
    /\ last.args[1] \in DOMAIN cfg.m

-----------------------------------------------------------------------------
(* remote.go: the remote map and the fetch fan-out.                        *)

\* The test Remotes applies to a key; parts[2] of a key "remote.x" is out of range.
RemotesFaultsOn(k) ==
    LET parts == Split(k, Dot) IN parts[1] = S("remote") /\ Len(parts) < 3

IsRemoteURLKey(k) ==
    LET parts == Split(k, Dot) IN
    parts[1] = S("remote") /\ Len(parts) >= 3 /\ parts[3] = S("url")

\* The loop of Remotes over the cache: res[parts[1]] = v.
RemoteMap(m) ==
    LET names == {Split(k, Dot)[2] : k \in {x \in DOMAIN m : IsRemoteURLKey(x)}} IN
    [n \in names |-> m[CHOOSE k \in DOMAIN m : IsRemoteURLKey(k) /\ Split(k, Dot)[2] = n]]

Remotes(st, fails) ==
    LET s1 == read_config(st, fails) IN
    IF s1.fault # "none" THEN s1
    ELSE IF \E k \in DOMAIN s1.cfg.m : RemotesFaultsOn(k) THEN Panic(s1)
    ELSE Return(s1, RemoteMap(s1.cfg.m))

IsDistinct(list) == \A i, j \in 1..Len(list) : list[i] = list[j] => i = j

Range(list) == {list[i] : i \in 1..Len(list)}

\* Every order in which a range over a Go map can deliver the keys.
Orderings(set) ==
    {q \in [1..Cardinality(set) -> set] : Range(q) = set}

\* allRemotes: the list itself, or the names of Remotes() in map order.
allRemotes(st, list, fails) ==
    IF Len(list) > 0 THEN Return(st, {list})
    ELSE LET s1 == Remotes(st, fails) IN
         IF s1.fault # "none" THEN s1 ELSE Return(s1, Orderings(DOMAIN s1.ret))

\* An aggregate that keeps only the last report.
AggregateLastOnly(res, ok) == ok

\* res = res && token.Ok
Aggregate(res, ok) == res /\ ok

\* Fetch up to its receive loop: make the channel, substitute the remotes and
\* start AsyncFetch, which calls allRemotes again: on a non-empty list that
\* is the list itself, and on an empty one the cache, now loaded, yields no
\* remote for the second time.
FetchCall(list, fails) ==
    /\ Idle
    /\ \A i \in 1..Len(workers) : workers[i].pc = "done"
    /\ LET st == allRemotes(Machine, list, fails) IN
       /\ cfg' = st.cfg
       /\ fault' = st.fault
       /\ IF st.fault # "none"
          THEN /\ last' = [op |-> "Fetch", args |-> <<list>>, ret |-> NoRet,
                           cmds |-> st.cmds, fault |-> st.fault, pre |-> NoRet]
               /\ UNCHANGED <<fetch, workers>>
          ELSE /\ \E rs \in st.ret :
                    fetch' = [pc |-> "recv", requested |-> list, remotes |-> rs,
                              items |-> EmptyMap, res |-> TRUE, launched |-> 0,
                              closed |-> FALSE, cmds |-> st.cmds]
               /\ workers' = <<>>
               /\ last' = [op |-> "Fetch called", args |-> <<list>>, ret |-> NoRet,
                           cmds |-> st.cmds, fault |-> "none", pre |-> NoRet]
    /\ UNCHANGED <<gitConfig, refs, gitRefs, gitHead, hd, mr, pc>>

\* AsyncFetch: go r.fetchOne(v, ok) for the next remote of the list.
AsyncLaunch ==
    /\ fault = "none"
    /\ fetch.pc # "idle"
    /\ fetch.launched < Len(fetch.remotes)
    /\ fetch' = [fetch EXCEPT !.launched = @ + 1]
    /\ workers' = Append(workers, [remote |-> fetch.remotes[fetch.launched + 1],
                                   pc |-> "run", ok |-> FALSE])
    /\ UNCHANGED <<cfg, gitConfig, refs, gitRefs, gitHead, hd, mr, pc, fault, last>>

\* fetchOne: the external fetch of one remote ends, well or not.
WorkerRun(i, ok) ==
    /\ fault = "none"
    /\ workers[i].pc = "run"
    /\ workers' = [workers EXCEPT ![i].pc = "send", ![i].ok = ok]
    /\ UNCHANGED <<cfg, gitConfig, refs, gitRefs, gitHead, hd, mr, pc, fetch, fault, last>>

\* A loop of Fetch that stops at the first result.
FetchDoneAtFirst(items, remotes) == Cardinality(DOMAIN items) >= 1

\* len(items) == len(remotes)
FetchDone(items, remotes) == Cardinality(DOMAIN items) = Len(remotes)

\* The rendezvous on the unbuffered channel: worker i sends its FetchStatus and
\* the loop of Fetch receives it, records it and tests whether it is done.
Receive(i) ==
    /\ fault = "none"
    /\ fetch.pc = "recv"
    /\ ~fetch.closed
    /\ workers[i].pc = "send"
    /\ LET items == MapPut(fetch.items, workers[i].remote, workers[i].ok)
           res == Aggregate(fetch.res, workers[i].ok)
       IN fetch' = [fetch EXCEPT !.items = items, !.res = res,
                        !.pc = IF FetchDone(items, fetch.remotes)
                               THEN "close" ELSE "recv"]
    /\ workers' = [workers EXCEPT ![i].pc = "done"]
    /\ UNCHANGED <<cfg, gitConfig, refs, gitRefs, gitHead, hd, mr, pc, fault, last>>

\* close(ok); return res, items
FetchReturn ==
    /\ fault = "none"
    /\ fetch.pc = "close"
    /\ fetch' = [fetch EXCEPT !.pc = "idle", !.closed = TRUE]
    /\ last' = [op |-> "Fetch", args |-> <<fetch.requested>>,
                ret |-> [res |-> fetch.res, items |-> fetch.items],
                cmds |-> fetch.cmds, fault |-> "none", pre |-> NoRet]
    /\ UNCHANGED <<cfg, gitConfig, refs, gitRefs, gitHead, hd, mr, pc, workers, fault>>

RemoteNames == {S("A"), S("B"), S("C")}

RemoteURLKey(n) == <<"remote", Dot>> \o n \o <<Dot, "url">>

\* The longest remote list a caller passes.
MaxFetchLen == 2

FetchLists == UNION {[1..n -> RemoteNames] : n \in 0..MaxFetchLen}

\* The configurations of the fetch model: any of the remotes, each with a url.
FetchStores ==
    UNION {[ks -> {S("x")}] : ks \in SUBSET {RemoteURLKey(S("A")), RemoteURLKey(S("B"))}}

DoFetch == \E list \in FetchLists, fails \in SUBSET {1} : FetchCall(list, fails)

DoWorkerRun == \E i \in 1..Len(workers), ok \in BOOLEAN : WorkerRun(i, ok)

DoReceive == \E i \in 1..Len(workers) : Receive(i)

InitFetch ==
    /\ cfg = NilCache
    /\ gitConfig \in FetchStores
    /\ InitRest

NextFetch == DoFetch \/ AsyncLaunch \/ DoWorkerRun \/ DoReceive \/ FetchReturn

SpecFetch == InitFetch /\ [][NextFetch]_vars

\* The scheduler runs every goroutine that can run, and every external fetch ends.
FairSpecFetch ==
    /\ SpecFetch
    /\ WF_vars(AsyncLaunch)
    /\ WF_vars(DoWorkerRun)
    /\ WF_vars(DoReceive)
    /\ WF_vars(FetchReturn)

FetchReturned == last.op = "Fetch" /\ last.fault = "none"

\* The remotes a returned Fetch was asked for: its list or, for an empty list,
\* every remote of the configuration.
RequestedRemotes ==
    IF Len(last.args[1]) > 0 THEN Range(last.args[1]) ELSE DOMAIN RemoteMap(cfg.m)

(* C2: for a list of distinct remotes, and in whatever order the workers   *)
(* finish, Fetch returns a map with exactly one entry per requested remote *)
(* holding that remote's own outcome, and an overall result that is the    *)
(* conjunction of all outcomes.                                            *)
C2_FetchAggregation ==
    (FetchReturned /\ IsDistinct(last.args[1])) =>
        /\ DOMAIN last.ret.items = RequestedRemotes
        /\ Len(workers) = Cardinality(RequestedRemotes)
        /\ \A i \in 1..Len(workers) :
              last.ret.items[workers[i].remote] = workers[i].ok
        /\ last.ret.res = (\A i \in 1..Len(workers) : workers[i].ok)

\* Fetch([A, B]) has returned false with {A: true, B: false}.
C2_Witness ==
    /\ FetchReturned
    /\ last.args[1] = <<S("A"), S("B")>>
    /\ last.ret.items = [n \in {S("A"), S("B")} |-> n = S("A")]
    /\ last.ret.res = FALSE

\* Fetch is in its receive loop.
FetchReceiving == fetch.pc = "recv"

(* C3: with fair scheduling and external fetches that end, Fetch           *)
(* eventually returns for every list of distinct remotes, the empty list   *)
(* of a repository without remotes included.                               *)
C3_FetchTerminates ==
    [](FetchReceiving /\ IsDistinct(fetch.remotes) => <>(fetch.pc = "idle"))

\* Fetch waits for a result that no worker is left to send.
FetchStuck ==
    /\ FetchReceiving
    /\ fetch.launched = Len(fetch.remotes)
    /\ \A i \in 1..Len(workers) : workers[i].pc = "done"

(* C4: when the list names a remote more than once, Fetch is never left    *)
(* waiting once every launched worker has reported: it returns.            *)
C4_DuplicateFetchReturns ==
    ~(FetchStuck /\ ~IsDistinct(fetch.remotes))

-----------------------------------------------------------------------------
(* The refs of the backing store and the git commands over them.           *)

RefsHeads == <<"refs", Slash, "heads", Slash>>
RefsTags == <<"refs", Slash, "tags", Slash>>
RefsRemotes == <<"refs", Slash, "remotes", Slash>>
HEAD == S("HEAD")

\* The commits of the model: c1 and c2 are unrelated, c3 has both in its history.
Commits == {S("c1"), S("c2"), S("c3")}

\* Commit y is in the history of commit x.
Reaches(x, y) == x = y \/ x = S("c3")

\* The commit whose history joins those of x and y: what integrating y into x gives.
Integrate(x, y) ==
    IF Reaches(x, y) THEN x ELSE IF Reaches(y, x) THEN y ELSE S("c3")

\* `git show-ref`: one line "SHA path" per ref.
RECURSIVE ShowRefOutput(_)
ShowRefOutput(store) ==
    IF DOMAIN store = {} THEN EmptyStr
    ELSE LET p == CHOOSE x \in DOMAIN store : TRUE IN
         store[p] \o <<Space>> \o p \o <<Newline>> \o ShowRefOutput(MapDelete(store, p))

\* The commit HEAD stands on, if any.
GitHeadCommit(store, head) ==
    IF ~head.sym THEN [ok |-> TRUE, sha |-> head.val]
    ELSE IF head.val \in DOMAIN store THEN [ok |-> TRUE, sha |-> store[head.val]]
    ELSE [ok |-> FALSE, sha |-> EmptyStr]

\* How git resolves a revision name: HEAD, a full path, a tag, a branch, a
\* remote-tracking ref, a commit id.
GitResolve(store, head, name) ==
    IF name = HEAD THEN GitHeadCommit(store, head)
    ELSE IF name \in DOMAIN store THEN [ok |-> TRUE, sha |-> store[name]]
    ELSE IF RefsTags \o name \in DOMAIN store THEN [ok |-> TRUE, sha |-> store[RefsTags \o name]]
    ELSE IF RefsHeads \o name \in DOMAIN store THEN [ok |-> TRUE, sha |-> store[RefsHeads \o name]]
    ELSE IF RefsRemotes \o name \in DOMAIN store
         THEN [ok |-> TRUE, sha |-> store[RefsRemotes \o name]]
    ELSE IF name \in Commits THEN [ok |-> TRUE, sha |-> name]
    ELSE [ok |-> FALSE, sha |-> EmptyStr]

\* `git checkout -q name`: onto the branch of that name, else detached.
GitCheckout(store, head, name) ==
    IF RefsHeads \o name \in DOMAIN store
    THEN [sym |-> TRUE, val |-> RefsHeads \o name]
    ELSE [sym |-> FALSE, val |-> GitResolve(store, head, name).sha]

-----------------------------------------------------------------------------
(* refs.go: the Ref entity.                                                *)

MkRef(sha, path) == [SHA |-> sha, Path |-> path]

\* A classification that takes every ref for a branch.
IsLocalAlways(r) == TRUE

IsLocal(r) == HasPrefix(r.Path, RefsHeads)
\* A classification that knows no remote refs.
IsRemoteNever(r) == FALSE

IsRemote(r) == HasPrefix(r.Path, RefsRemotes)
IsTag(r) == HasPrefix(r.Path, RefsTags)
IsHead(r) == r.Path = HEAD
IsRaw(r) == r.SHA = r.Path

Name(r) ==
    LET k == SplitN(r.Path, Slash, 3) IN k[Len(k)]

Equals(r, other) == r.Path = other.Path /\ r.SHA = other.SHA

\* The lines a bufio.Scanner delivers: an empty last line is no line.
ScanLines(out) ==
    LET ls == Split(out, Newline) IN
    IF ls[Len(ls)] = EmptyStr THEN SubSeq(ls, 1, Len(ls) - 1) ELSE ls

\* A cache keyed by what the refs point at.
RefKeySHA(ref) == ref.SHA

\* res[ref.Path] = ref
RefKey(ref) == ref.Path

\* The loop of loadRefs over the lines of show-ref.
RECURSIVE ParseShowRef(_, _)
ParseShowRef(lines, res) ==
    IF Len(lines) = 0 THEN res
    ELSE LET parts == SplitN(TrimSpace(lines[1]), Space, 2)
             ref == MkRef(parts[1], parts[2])
         IN ParseShowRef(Tail(lines), MapPut(res, RefKey(ref), ref))

\* loadRefs; show-ref fails in a repository without refs.  The Refs of a
\* fresh cache are new objects: a handle held from before is none of them.
loadRefs(st, fails) ==
    IF st.refs.loaded THEN st
    ELSE LET ok == NextOk(st, fails) /\ DOMAIN st.gitRefs # {}
             s1 == Issue(st, Cmd("show-ref", <<>>))
         IN IF ~ok THEN Panic(s1)
            ELSE [s1 EXCEPT !.refs = [loaded |-> TRUE,
                                      m |-> ParseShowRef(ScanLines(ShowRefOutput(s1.gitRefs)),
                                                         EmptyMap)],
                            !.hd.live = FALSE]

ReloadRefs(st) == [st EXCEPT !.refs = NilCache, !.hd.live = FALSE]

\* A lookup that tries the tags before the branches.
RefPrefixesTagsFirst == <<EmptyStr, RefsTags, RefsHeads, RefsRemotes>>

\* []string{"", "refs/heads/", "refs/tags/", "refs/remotes/"}
RefPrefixes == <<EmptyStr, RefsHeads, RefsTags, RefsRemotes>>

\* The first prefix of Repo.Ref's loop under which name is in the cache, 0 if none.
RECURSIVE FirstHit(_, _, _)
FirstHit(m, name, i) ==
    IF i > Len(RefPrefixes) THEN 0
    ELSE IF RefPrefixes[i] \o name \in DOMAIN m THEN i
    ELSE FirstHit(m, name, i + 1)

\* Repo.Ref: ret is [err, ref, cached]; cached tells a cache entry from a raw ref.
Ref(st, name, fails) ==
    LET s1 == loadRefs(st, fails)
        i == FirstHit(s1.refs.m, name, 1)
    IN IF s1.fault # "none" THEN s1
       ELSE IF i # 0
       THEN Return(s1, [err |-> FALSE, ref |-> s1.refs.m[RefPrefixes[i] \o name],
                        cached |-> TRUE])
       ELSE LET ok == NextOk(s1, fails) /\ GitResolve(s1.gitRefs, s1.gitHead, name).ok
                s2 == Issue(s1, Cmd("rev-parse -q --verify", <<name>>))
            IN IF ok THEN Return(s2, [err |-> FALSE, ref |-> MkRef(name, name),
                                      cached |-> FALSE])
               ELSE Return(s2, [err |-> TRUE, ref |-> MkRef(EmptyStr, EmptyStr),
                                cached |-> FALSE])

\* The caller keeps the Ref an operation returned.
Hold(st) ==
    IF st.fault # "none" \/ st.ret.err THEN st
    ELSE [st EXCEPT !.hd = [set |-> TRUE, SHA |-> st.ret.ref.SHA,
                            Path |-> st.ret.ref.Path, live |-> st.ret.cached]]

\* The handle as a Ref.
HeldRef(st) == MkRef(st.hd.SHA, st.hd.Path)

\* Ref.Checkout
CheckoutArg(r) == IF IsLocal(r) \/ IsTag(r) \/ IsRemote(r) THEN Name(r) ELSE r.SHA

Checkout(st, r, fails) ==
    LET arg == CheckoutArg(r)
        ok == NextOk(st, fails) /\ GitResolve(st.gitRefs, st.gitHead, arg).ok
        s1 == Issue(st, Cmd("checkout -q", <<arg>>))
    IN IF ok THEN Return([s1 EXCEPT !.gitHead = GitCheckout(st.gitRefs, st.gitHead, arg)],
                         [err |-> FALSE])
       ELSE Return(s1, [err |-> TRUE])

\* Repo.CurrentRef: ret is [err, isnil, ref]; a path that is not in the cache
\* yields the nil entry of the map, with a nil error.
CurrentRef(st, fails) ==
    LET s1 == loadRefs(st, fails)
        symOk == NextOk(s1, fails) /\ s1.gitHead.sym
        s2 == Issue(s1, Cmd("symbolic-ref", <<HEAD>>))
        refname == TrimSpace(s1.gitHead.val \o <<Newline>>)
        parseOk == NextOk(s2, fails) /\ GitHeadCommit(s2.gitRefs, s2.gitHead).ok
        s3 == Issue(s2, Cmd("rev-parse", <<HEAD>>))
        sha == TrimSpace(GitHeadCommit(s2.gitRefs, s2.gitHead).sha \o <<Newline>>)
        none == MkRef(EmptyStr, EmptyStr)
    IN IF s1.fault # "none" THEN s1
       ELSE IF symOk
       THEN IF refname \in DOMAIN s2.refs.m
            THEN Return(s2, [err |-> FALSE, isnil |-> FALSE, ref |-> s2.refs.m[refname]])
            ELSE Return(s2, [err |-> FALSE, isnil |-> TRUE, ref |-> none])
       ELSE IF parseOk
       THEN Return(s3, [err |-> FALSE, isnil |-> FALSE, ref |-> MkRef(sha, sha)])
       ELSE Return(s3, [err |-> TRUE, isnil |-> TRUE, ref |-> none])

\* A Contains that asks git even when the two SHAs are equal.
ContainsAlwaysAsks(st, r, other, fails) ==
    LET ok == NextOk(st, fails) /\ r.SHA \in Commits /\ other.SHA \in Commits
        s1 == Issue(st, Cmd("rev-list", <<other.SHA, <<"^">> \o r.SHA>>))
    IN IF ~ok THEN Return(s1, [err |-> TRUE, ok |-> FALSE])
       ELSE Return(s1, [err |-> FALSE, ok |-> Reaches(r.SHA, other.SHA)])

\* Ref.Contains: ret is [err, ok].
Contains(st, r, other, fails) ==
    IF r.SHA = other.SHA THEN Return(st, [err |-> FALSE, ok |-> TRUE])
    ELSE LET ok == NextOk(st, fails) /\ r.SHA \in Commits /\ other.SHA \in Commits
             s1 == Issue(st, Cmd("rev-list", <<other.SHA, <<"^">> \o r.SHA>>))
         IN IF ~ok THEN Return(s1, [err |-> TRUE, ok |-> FALSE])
            ELSE Return(s1, [err |-> FALSE, ok |-> Reaches(r.SHA, other.SHA)])

\* The held Ref gets a new SHA; the cache entry too when it is the same object.
SetHeldSHA(st, sha) ==
    LET s1 == [st EXCEPT !.hd.SHA = sha] IN
    IF st.hd.live /\ st.refs.loaded /\ st.hd.Path \in DOMAIN st.refs.m
    THEN [s1 EXCEPT !.refs.m[st.hd.Path].SHA = sha]
    ELSE s1

\* Ref.Reload of the held Ref: the pointer file of a ref that is neither HEAD nor raw.
Reload(st, fails) ==
    LET r == HeldRef(st)
        ok == NextOk(st, fails) /\ r.Path \in DOMAIN st.gitRefs
        s1 == Issue(st, Cmd("ReadFile", <<r.Path>>))
    IN IF IsHead(r) \/ IsRaw(r) THEN Return(st, [err |-> FALSE])
       ELSE IF ~ok THEN Return(s1, [err |-> TRUE])
       ELSE Return(SetHeldSHA(s1, TrimSpace(st.gitRefs[r.Path] \o <<Newline>>)),
                   [err |-> FALSE])

-----------------------------------------------------------------------------
(* refs.go: creating and deleting refs.                                    *)

NilRefRet(err) == [err |-> err, ref |-> MkRef(EmptyStr, EmptyStr), cached |-> FALSE,
                   isnil |-> TRUE]

\* A path that puts tags among the branches.
makeRefPathHeadsOnly(reftype, name) == RefsHeads \o name

\* The full path makeRef gives the new ref.
makeRefPath(reftype, name) ==
    IF reftype = "branch" THEN RefsHeads \o name ELSE RefsTags \o name

\* The starting point makeRef hands to git: a Ref's short name, or the string.
BaseArg(base) == IF base.kind = "ref" THEN Name(base.ref) ELSE base.str

\* `git branch name start` / `git tag name start`
GitCreateOk(store, head, path, start) ==
    path \notin DOMAIN store /\ GitResolve(store, head, start).ok

GitCreate(store, head, path, start) ==
    MapPut(store, path, GitResolve(store, head, start).sha)

\* makeRef for reftype "branch" or "tag" and a base that is a Ref or a string.
makeRef(st, reftype, name, base, fails) ==
    LET s1 == loadRefs(st, fails)
        path == makeRefPath(reftype, name)
        start == BaseArg(base)
        ok == NextOk(s1, fails) /\ GitCreateOk(s1.gitRefs, s1.gitHead, path, start)
        s2 == Issue(s1, Cmd(reftype, <<name, start>>))
        s3 == loadRefs(ReloadRefs([s2 EXCEPT !.gitRefs =
                                       GitCreate(s1.gitRefs, s1.gitHead, path, start)]),
                       fails)
    IN IF s1.fault # "none" THEN s1
       ELSE IF name = HEAD THEN Return(s1, NilRefRet(TRUE))
       ELSE IF path \in DOMAIN s1.refs.m THEN Return(s1, NilRefRet(TRUE))
       ELSE IF ~ok THEN Return(s2, NilRefRet(TRUE))
       ELSE IF s3.fault # "none" THEN s3
       ELSE IF path \in DOMAIN s3.refs.m
       THEN Return(s3, [err |-> FALSE, ref |-> s3.refs.m[path], cached |-> TRUE,
                        isnil |-> FALSE])
       ELSE Return(s3, NilRefRet(FALSE))

\* `git branch -d name` / `git tag -d name`: the ref must exist and not be checked out.
GitDeleteOk(store, head, path) ==
    path \in DOMAIN store /\ ~(head.sym /\ head.val = path)

\* Ref.Delete of the held Ref; the cache entry it removes is the one keyed by Name().
Delete(st, fails) ==
    LET r == HeldRef(st)
        c == IF IsTag(r) THEN "tag" ELSE "branch"
        path == makeRefPath(c, Name(r))
        ok == NextOk(st, fails) /\ GitDeleteOk(st.gitRefs, st.gitHead, path)
        s1 == Issue(st, Cmd(c \o " -d", <<Name(r)>>))
    IN IF IsRemote(r) THEN Return(st, [err |-> TRUE])
       ELSE IF IsHead(r) THEN Return(st, [err |-> TRUE])
       ELSE IF ~IsTag(r) /\ ~IsLocal(r) THEN Panic(st)
       ELSE IF ~ok THEN Return(s1, [err |-> TRUE])
       ELSE Return([s1 EXCEPT !.gitRefs = MapDelete(@, path),
                              !.refs.m = MapDelete(@, Name(r))],
                   [err |-> FALSE])

-----------------------------------------------------------------------------
(* The ref operations a caller can invoke, on a repository with a branch   *)
(* m and possibly a branch a and a tag a.                                  *)

NameA == S("a")
NameM == S("m")

\* The repositories the ref model starts in: HEAD on branch m, which exists
\* unless the repository is new.
MakeRefStores ==
    {EmptyMap}
    \cup {[p \in {RefsHeads \o NameM} \cup ps |-> IF p = RefsHeads \o NameM THEN S("c1") ELSE S("c2")] :
            ps \in SUBSET {RefsHeads \o NameA, RefsTags \o NameA, RefsRemotes \o NameA}}

\* What the caller asks Repo.Ref for.
LookupNames == {NameA, NameM, RefsTags \o NameA, HEAD, S("c2"), S("x")}

\* What the caller names a new ref.
NewRefNames == {NameA, HEAD}

\* What the caller bases a new ref on: a revision string, or the Ref it holds.
BaseSet ==
    {[kind |-> "str", str |-> b, ref |-> MkRef(EmptyStr, EmptyStr)] : b \in {HEAD, S("x")}}
    \cup {[kind |-> "ref", str |-> EmptyStr, ref |-> MkRef(hd.SHA, hd.Path)] : x \in {y \in {1} : hd.set}}

RefPre == [refs |-> refs, gitRefs |-> gitRefs, gitHead |-> gitHead, hd |-> hd]

DoRef ==
    \E name \in LookupNames, fails \in SUBSET (1..2) :
        Idle /\ CommitWith(Hold(Ref(Machine, name, fails)), "Ref", <<name>>, RefPre)

DoReloadRefs ==
    Idle /\ CommitWith(ReloadRefs(Machine), "ReloadRefs", <<>>, RefPre)

\* makeRef issues at most three commands: the enumeration, the creation, the enumeration.
DoBranch ==
    \E name \in NewRefNames, base \in BaseSet, fails \in SUBSET (1..3) :
        Idle /\ CommitWith(Hold(makeRef(Machine, "branch", name, base, fails)),
                           "Branch", <<name, base>>, RefPre)

DoTag ==
    \E name \in NewRefNames, base \in BaseSet, fails \in SUBSET (1..3) :
        Idle /\ CommitWith(Hold(makeRef(Machine, "tag", name, base, fails)),
                           "Tag", <<name, base>>, RefPre)

DoDelete ==
    \E fails \in SUBSET {1} :
        Idle /\ hd.set /\ CommitWith(Delete(Machine, fails), "Delete", <<>>, RefPre)

InitMakeRef ==
    /\ cfg = NilCache
    /\ gitConfig = EmptyMap
    /\ refs = NilCache
    /\ gitRefs \in MakeRefStores
    /\ gitHead = [sym |-> TRUE, val |-> RefsHeads \o NameM]
    /\ hd = NoHandle
    /\ InitIdle

NextMakeRef == DoRef \/ DoReloadRefs \/ DoBranch \/ DoTag \/ DoDelete

SpecMakeRef == InitMakeRef /\ [][NextMakeRef]_vars

-----------------------------------------------------------------------------
(* Branch and Tag: what the record of the last finished call shows.        *)

CreateCalled == last.op \in {"Branch", "Tag"}

\* The name the call was given and the full path that name stands for.
CreateName == last.args[1]
CreatePath == IF last.op = "Branch" THEN RefsHeads \o CreateName ELSE RefsTags \o CreateName

\* The call ran the creation command of its kind.
CreateRan ==
    \E i \in 1..Len(last.cmds) : last.cmds[i].cmd = (IF last.op = "Branch" THEN "branch" ELSE "tag")

\* The call returned an error.
CreateFailed == last.fault = "none" /\ last.ret.err

\* The cache holds exactly what the store holds.
CacheMirrors(cache, store) ==
    /\ cache.loaded
    /\ DOMAIN cache.m = DOMAIN store
    /\ \A p \in DOMAIN store : cache.m[p] = MkRef(store[p], p)

(* C9: Branch("HEAD", base) and Tag("HEAD", base) return an error in every *)
(* state, the ref cache loaded or not, and issue no external command.      *)
C9_HeadRejectedWithoutGit ==
    (CreateCalled /\ CreateName = HEAD) =>
        (last.fault = "none" /\ last.ret.err /\ last.cmds = <<>>)

\* The paths the existence check of the call saw: those of the cache as the
\* call found it, or of the store when the call had to load the cache.
CreateKnown ==
    IF last.pre.refs.loaded THEN DOMAIN last.pre.refs.m ELSE DOMAIN last.pre.gitRefs

(* C10 as stated: the call fails without running the creation command iff  *)
(* the full path is already in the ref cache; a successful creation leaves *)
(* the cache fully reloaded and returns the non-nil entry of the new path; *)
(* a failed creation returns an error and leaves the cache as it was.      *)
C10_CreationAsStated ==
    (CreateCalled /\ last.fault = "none") =>
        /\ (CreateFailed /\ ~CreateRan) <=> (CreatePath \in CreateKnown)
        /\ (CreateRan /\ ~last.ret.err) =>
               /\ CacheMirrors(refs, gitRefs)
               /\ ~last.ret.isnil
               /\ CreatePath \in DOMAIN refs.m
               /\ last.ret.ref = refs.m[CreatePath]
        /\ (CreateRan /\ last.ret.err) => refs = last.pre.refs

(* C10: a call that returns fails without running the creation command iff *)
(* the name is HEAD or the full path is in the ref cache the existence     *)
(* check saw (loaded on demand when the call found none), so a tag and a   *)
(* branch of one short name do not block each other; when the creation     *)
(* command succeeds the cache is reloaded from the store and the non-nil   *)
(* entry of the new path is returned; when it fails an error is returned,  *)
(* the store is untouched and the cache is the one the check saw; a call   *)
(* that does not return stopped at a failed enumeration.                   *)
C10_Creation ==
    CreateCalled =>
        /\ last.fault = "none" =>
               /\ (CreateFailed /\ ~CreateRan) <=> (CreateName = HEAD \/ CreatePath \in CreateKnown)
               /\ (CreateRan /\ ~last.ret.err) =>
                      /\ CacheMirrors(refs, gitRefs)
                      /\ ~last.ret.isnil
                      /\ CreatePath \in DOMAIN refs.m
                      /\ last.ret.ref = refs.m[CreatePath]
                      /\ CreatePath \notin DOMAIN last.pre.gitRefs
                      /\ DOMAIN gitRefs = DOMAIN last.pre.gitRefs \cup {CreatePath}
               /\ (CreateRan /\ last.ret.err) =>
                      /\ gitRefs = last.pre.gitRefs
                      /\ refs.loaded
                      /\ IF last.pre.refs.loaded THEN refs = last.pre.refs
                         ELSE CacheMirrors(refs, gitRefs)
        /\ last.fault # "none" =>
               /\ last.cmds # <<>>
               /\ last.cmds[Len(last.cmds)].cmd = "show-ref"

\* A tag was created under the short name of a branch the cache already held.
C10_Witness ==
    /\ last.op = "Tag"
    /\ last.fault = "none"
    /\ ~last.ret.err
    /\ CreateRan
    /\ RefsHeads \o CreateName \in DOMAIN last.pre.refs.m
    /\ CreatePath \in DOMAIN refs.m

-----------------------------------------------------------------------------
(* refs.go: MergeWith and RebaseOnto.  A call runs in steps, one for each  *)
(* external command it waits for; mr is its frame and pc its position.     *)

NilErr == [err |-> FALSE, msg |-> EmptyStr]

\* The error of a command that exited with failure.
CmdErr == [err |-> TRUE, msg |-> <<"exit", Space, "status", Space, "1">>]

\* fmt.Errorf("%s is not a branch, cannot %s it!\n", op, head.Path)
NotBranchErr(op, head) ==
    [err |-> TRUE,
     msg |-> <<op, Space, "is", Space, "not", Space, "a", Space, "branch", ",", Space,
               "cannot", Space>> \o head.Path \o <<Space, "it", "!", Newline>>]

\* An undoer that loses the error of the integration.
UndoerErrDropped(out, errOut) == NilErr

\* fmt.Errorf("%s\n%s\n", out.String(), errOut.String()) of the undoer
UndoerErr(out, errOut) ==
    [err |-> TRUE, msg |-> out \o <<Newline>> \o errOut \o <<Newline>>]

\* What the integration command can leave in its two output buffers when it fails.
DoerOutputs ==
    {[out |-> EmptyStr, errOut |-> S("fatal")], [out |-> S("CONFLICT"), errOut |-> EmptyStr]}

\* `git branch -f name sha`: git refuses to move the branch HEAD is on.
GitBranchForceOk(store, head, path, sha) ==
    GitResolve(store, head, sha).ok /\ ~(head.sym /\ head.val = path)

MergePre ==
    [cfg |-> cfg, refs |-> refs, gitRefs |-> gitRefs, gitHead |-> gitHead, hd |-> hd]

\* The frame of a call of op on the held Ref with target.
NewMerge(op, target) ==
    [op |-> op, head |-> HeldRef(Machine), target |-> target,
     current |-> MkRef(EmptyStr, EmptyStr), switched |-> FALSE, contained |-> FALSE,
     doerRan |-> FALSE, doerFailed |-> FALSE, abortFailed |-> FALSE,
     out |-> EmptyStr, errOut |-> EmptyStr,
     preSHA |-> IF hd.Path \in DOMAIN gitRefs THEN gitRefs[hd.Path] ELSE EmptyStr,
     pre |-> MergePre, cmds |-> <<>>, ret |-> NoRet, done |-> FALSE]

\* The machine of a step becomes the state.
StepState(st) ==
    /\ cfg' = st.cfg
    /\ gitConfig' = st.gitConfig
    /\ refs' = st.refs
    /\ gitRefs' = st.gitRefs
    /\ gitHead' = st.gitHead
    /\ hd' = st.hd
    /\ fault' = st.fault
    /\ UNCHANGED <<fetch, workers>>

\* The call goes on at position next.
Goto(st, m, next) ==
    /\ StepState(st)
    /\ mr' = [m EXCEPT !.cmds = @ \o st.cmds]
    /\ pc' = next
    /\ UNCHANGED last

\* The call returns ret, or stops in a panic.
Finish(st, m, ret) ==
    /\ StepState(st)
    /\ mr' = [m EXCEPT !.cmds = @ \o st.cmds, !.ret = ret, !.done = TRUE]
    /\ pc' = "idle"
    /\ last' = [op |-> m.op, args |-> <<m.target>>, ret |-> ret,
                cmds |-> m.cmds \o st.cmds, fault |-> st.fault, pre |-> m.pre]

\* A restore that only runs after a successful integration.
RestoreScheduledOnSuccess(m) == m.switched /\ ~m.doerFailed

\* defer current.Checkout(): registered when the wrapper switched to head.
RestoreScheduled(m) == m.switched

\* The wrapper returns ret: the deferred checkout, if any, runs first.
Exit(st, m, ret) ==
    IF RestoreScheduled(m) THEN Goto(st, [m EXCEPT !.ret = ret], "restore")
    ELSE Finish(st, m, ret)

\* A wrapper that goes on whatever Contains said.
AfterContainsIgnored(ok) == "current"

\* Where the wrapper goes after head.Contains(target) returned ok.
AfterContains(ok) == IF ok THEN "return" ELSE "current"

\* MergeWith / RebaseOnto: build the command and the undoer, enter the wrapper.
MergeCall(op, target) ==
    /\ Idle
    /\ hd.set
    /\ mr' = NewMerge(op, target)
    /\ pc' = "contains"
    /\ last' = [NoLast EXCEPT !.op = "called", !.args = <<op, target>>]
    /\ UNCHANGED <<cfg, gitConfig, refs, gitRefs, gitHead, hd, fetch, workers, fault>>

\* head.Contains(target) and the test that head is a branch.
StepContains(fails) ==
    /\ pc = "contains" /\ fault = "none"
    /\ LET head == HeldRef(Machine)
           st == Contains(Machine, head, mr.target, fails)
           m == [mr EXCEPT !.contained = ~st.ret.err /\ st.ret.ok]
       IN IF st.ret.err THEN Finish(st, m, CmdErr)
          ELSE IF AfterContains(st.ret.ok) = "return" THEN Finish(st, m, NilErr)
          ELSE IF ~IsLocal(head) THEN Finish(st, m, NotBranchErr(mr.op, head))
          ELSE Goto(st, m, "current")

\* head.r.CurrentRef() and head.Equals(current); Equals of a nil current panics.
StepCurrent(fails) ==
    /\ pc = "current" /\ fault = "none"
    /\ LET head == HeldRef(Machine)
           st == CurrentRef(Machine, fails)
       IN IF st.fault # "none" THEN Finish(st, mr, NoRet)
          ELSE IF st.ret.err THEN Finish(st, mr, CmdErr)
          ELSE IF st.ret.isnil THEN Finish(Panic(st), mr, NoRet)
          ELSE IF Equals(head, st.ret.ref)
               THEN Goto(st, [mr EXCEPT !.current = st.ret.ref], "doer")
               ELSE Goto(st, [mr EXCEPT !.current = st.ret.ref], "checkout")

\* head.Checkout()
StepCheckout(fails) ==
    /\ pc = "checkout" /\ fault = "none"
    /\ LET st == Checkout(Machine, HeldRef(Machine), fails)
       IN IF st.ret.err THEN Finish(st, mr, CmdErr)
          ELSE Goto(st, [mr EXCEPT !.switched = TRUE], "doer")

\* doer.Run(): `git merge -q target.SHA name` / `git rebase -q target.SHA name`.
\* A failed merge leaves HEAD on the branch and the branch where it was; a
\* failed rebase leaves HEAD detached on the target.
StepDoer(fails, o) ==
    /\ pc = "doer" /\ fault = "none"
    /\ LET head == HeldRef(Machine)
           ok == /\ NextOk(Machine, fails)
                 /\ GitResolve(gitRefs, gitHead, mr.target.SHA).ok
                 /\ head.Path \in DOMAIN gitRefs
           st == Issue(Machine, Cmd(mr.op \o " -q", <<mr.target.SHA, Name(head)>>))
           m == [mr EXCEPT !.doerRan = TRUE]
       IN IF ok
          THEN Goto([st EXCEPT !.gitRefs[head.Path] = Integrate(@, mr.target.SHA),
                               !.gitHead = [sym |-> TRUE, val |-> head.Path]],
                    m, "reload")
          ELSE Goto(IF mr.op = "rebase" /\ GitResolve(gitRefs, gitHead, mr.target.SHA).ok
                    THEN [st EXCEPT !.gitHead = [sym |-> FALSE, val |-> mr.target.SHA]]
                    ELSE st,
                    [m EXCEPT !.doerFailed = TRUE, !.out = o.out, !.errOut = o.errOut],
                    "abort")

\* head.Reload() after a successful integration; its error is dropped.
StepReload(fails) ==
    /\ pc = "reload" /\ fault = "none"
    /\ Exit(Reload(Machine, fails), mr, NilErr)

\* An undoer that forces the branch back whatever the abort did.
ForceAlways(abortOk) == TRUE

\* if cmd.Run() == nil { return err }: the undoer goes on only after a failed abort.
ForceNeeded(abortOk) == ~abortOk

\* The undoer: `git merge --abort` / `git rebase --abort`.
StepAbort(fails) ==
    /\ pc = "abort" /\ fault = "none"
    /\ LET head == HeldRef(Machine)
           st == Issue(Machine, Cmd(mr.op \o " --abort", <<>>))
           err == UndoerErr(mr.out, mr.errOut)
           ok == NextOk(Machine, fails)
           s1 == IF ok THEN [st EXCEPT !.gitHead = [sym |-> TRUE, val |-> head.Path]] ELSE st
           m == [mr EXCEPT !.abortFailed = ~ok]
       IN IF ~ForceNeeded(ok) THEN Exit(s1, m, err)
          ELSE Goto(s1, [m EXCEPT !.ret = err], "reset")

\* The undoer after a failed abort: `git branch -f name r.SHA`, its exit status
\* dropped, and for a rebase os.Remove of .rebase-apply.
StepReset(fails) ==
    /\ pc = "reset" /\ fault = "none"
    /\ LET head == HeldRef(Machine)
           path == RefsHeads \o Name(head)
           ok == NextOk(Machine, fails) /\ GitBranchForceOk(gitRefs, gitHead, path, head.SHA)
           s1 == Issue(Machine, Cmd("branch -f", <<Name(head), head.SHA>>))
           s2 == IF ok THEN [s1 EXCEPT !.gitRefs =
                                 MapPut(@, path, GitResolve(gitRefs, gitHead, head.SHA).sha)]
                 ELSE s1
           s3 == IF mr.op = "rebase" THEN Issue(s2, Cmd("Remove", <<S(".rebase-apply")>>))
                 ELSE s2
       IN Exit(s3, mr, mr.ret)

\* The deferred current.Checkout(); its error is dropped.
StepRestore(fails) ==
    /\ pc = "restore" /\ fault = "none"
    /\ Finish(Checkout(Machine, mr.current, fails), mr, mr.ret)

-----------------------------------------------------------------------------
(* Merging and rebasing the branches a and b of a repository.              *)

NameB == S("b")
NameU == S("u")

\* The stores the merge model starts in: branches a and b on any commits.
MergeStores ==
    {[p \in {RefsHeads \o NameA, RefsHeads \o NameB} |->
         IF p = RefsHeads \o NameA THEN sa ELSE sb] : sa \in Commits, sb \in {S("c2")}}

\* Where HEAD can be: on a, on b, on the unborn branch u, detached.
MergeHeads ==
    {[sym |-> TRUE, val |-> RefsHeads \o n] : n \in {NameA, NameB, NameU}}
    \cup {[sym |-> FALSE, val |-> S("c1")]}

\* What the caller asks Repo.Ref for before it merges.
MergeLookupNames == {NameA, NameB, S("c1")}

\* The Refs the caller can pass as target: a raw commit or an entry of the cache.
MergeTargets ==
    {MkRef(S("c2"), S("c2"))} \cup {refs.m[p] : p \in DOMAIN refs.m}

DoMergeRef ==
    \E name \in MergeLookupNames, fails \in SUBSET {1} :
        Idle /\ CommitWith(Hold(Ref(Machine, name, fails)), "Ref", <<name>>, RefPre)

DoMergeReloadRefs ==
    Idle /\ refs.loaded /\ CommitWith(ReloadRefs(Machine), "ReloadRefs", <<>>, RefPre)

DoContains ==
    \E other \in MergeTargets \cup {HeldRef(Machine)}, fails \in SUBSET {1} :
        /\ Idle
        /\ hd.set
        /\ CommitWith(Contains(Machine, HeldRef(Machine), other, fails),
                      "Contains", <<other>>, RefPre)

DoMergeWith == \E target \in MergeTargets : MergeCall("merge", target)

DoRebaseOnto == \E target \in MergeTargets : MergeCall("rebase", target)

DoStepContains == \E fails \in SUBSET {1} : StepContains(fails)

\* CurrentRef issues at most three commands.
DoStepCurrent == \E fails \in SUBSET (1..3) : StepCurrent(fails)

DoStepCheckout == \E fails \in SUBSET {1} : StepCheckout(fails)

DoStepDoer == \E fails \in SUBSET {1}, o \in DoerOutputs : StepDoer(fails, o)

DoStepReload == \E fails \in SUBSET {1} : StepReload(fails)

DoStepAbort == \E fails \in SUBSET {1} : StepAbort(fails)

DoStepReset == \E fails \in SUBSET {1} : StepReset(fails)

DoStepRestore == \E fails \in SUBSET {1} : StepRestore(fails)

InitMerge ==
    /\ cfg = NilCache
    /\ gitConfig = EmptyMap
    /\ refs = NilCache
    /\ gitRefs \in MergeStores
    /\ gitHead \in MergeHeads
    /\ hd = NoHandle
    /\ InitIdle

NextMerge ==
    \/ DoMergeRef
    \/ DoMergeReloadRefs
    \/ DoContains
    \/ DoMergeWith
    \/ DoRebaseOnto
    \/ DoStepContains
    \/ DoStepCurrent
    \/ DoStepCheckout
    \/ DoStepDoer
    \/ DoStepReload
    \/ DoStepAbort
    \/ DoStepReset
    \/ DoStepRestore

SpecMerge == InitMerge /\ [][NextMerge]_vars

-----------------------------------------------------------------------------
(* MergeWith and RebaseOnto: what the frame of a finished call shows.      *)

\* A call of MergeWith or RebaseOnto has just returned.
MergeReturned == pc = "idle" /\ mr.op # "none" /\ mr.done /\ fault = "none"

MergeIssued(name) == \E i \in 1..Len(mr.cmds) : mr.cmds[i].cmd = name

\* The call went through the forced reset.
MergeForced == MergeIssued("branch -f")

(* C5: when MergeWith or RebaseOnto returns an error because the           *)
(* integration command failed, the branch pointer in the store is the SHA  *)
(* it had before the call, after a successful abort and after a forced     *)
(* reset alike.                                                            *)
C5_Rollback ==
    (MergeReturned /\ mr.doerFailed) =>
        /\ mr.ret.err
        /\ mr.head.Path \in DOMAIN gitRefs
        /\ gitRefs[mr.head.Path] = mr.preSHA

(* C6: when the call switched to its branch, the last command it issues    *)
(* on every exit path is the checkout of the ref that was checked out      *)
(* before, after the integration and any rollback; when the branch and the *)
(* checked-out ref are equal the call issues no checkout at all.           *)
C6_RestoreCheckout ==
    MergeReturned =>
        /\ mr.switched =>
               /\ Len(mr.cmds) >= 2
               /\ mr.cmds[Len(mr.cmds)] = Cmd("checkout -q", <<CheckoutArg(mr.current)>>)
               /\ \E i \in 1..(Len(mr.cmds) - 1) :
                      /\ mr.cmds[i] = Cmd("checkout -q", <<CheckoutArg(mr.head)>>)
                      /\ \A j \in 1..Len(mr.cmds) :
                             mr.cmds[j].cmd = "checkout -q" => j \in {i, Len(mr.cmds)}
                      /\ mr.doerRan => mr.cmds[i + 1].cmd = mr.op \o " -q"
        /\ (mr.doerRan /\ Equals(mr.head, mr.current)) =>
               /\ ~mr.switched
               /\ ~MergeIssued("checkout -q")

\* A call that switched, failed to integrate, went through the forced reset
\* and checked the original ref, a detached commit, out again.
C6_Witness ==
    /\ MergeReturned
    /\ mr.switched
    /\ mr.doerFailed
    /\ MergeForced
    /\ IsRaw(mr.current)
    /\ mr.cmds[Len(mr.cmds)].cmd = "checkout -q"

(* C7: whenever the integration command fails, the call returns a non-nil  *)
(* error made of the two captured outputs of that command, whatever the    *)
(* abort and the forced reset did.                                         *)
C7_FailureReported ==
    (pc = "idle" /\ mr.op # "none" /\ mr.doerFailed) =>
        /\ fault = "none"
        /\ mr.done
        /\ mr.ret.err
        /\ mr.ret.msg = mr.out \o <<Newline>> \o mr.errOut \o <<Newline>>
        /\ last.ret = mr.ret

\* A failed integration that wrote to its standard output, followed by a
\* failed abort and the forced reset.
C7_Witness ==
    /\ MergeReturned
    /\ mr.doerFailed
    /\ MergeForced
    /\ mr.out = S("CONFLICT")
    /\ mr.ret.err

(* C8: when the branch already contains the target, the call returns nil   *)
(* having issued nothing but the containment query: the checked-out ref is *)
(* neither determined nor changed, no integration runs, and the Ref's SHA, *)
(* the ref cache, the config cache and the store are as before the call.   *)
C8_ContainedNoOp ==
    (MergeReturned /\ mr.contained) =>
        /\ mr.ret = NilErr
        /\ ~mr.doerRan
        /\ \A i \in 1..Len(mr.cmds) : mr.cmds[i].cmd = "rev-list"
        /\ hd = mr.pre.hd
        /\ refs = mr.pre.refs
        /\ cfg = mr.pre.cfg
        /\ gitRefs = mr.pre.gitRefs
        /\ gitHead = mr.pre.gitHead

\* A contained target of another SHA, merged while the ref cache was unloaded
\* and another ref was checked out.
C8_Witness ==
    /\ MergeReturned
    /\ mr.contained
    /\ mr.head.SHA # mr.target.SHA
    /\ ~mr.pre.refs.loaded
    /\ ~refs.loaded
    /\ gitHead.val # mr.head.Path

-----------------------------------------------------------------------------
(* Repo.Ref: what the record of the last finished lookup shows.            *)

RefCalled == last.op = "Ref" /\ last.fault = "none"

\* The paths the lookup of a name tries, in the order it tries them.
RefCandidates(name) == <<name, RefsHeads \o name, RefsTags \o name, RefsRemotes \o name>>

\* Candidate i is the first one in the cache.
RefFirstIn(m, name, i) ==
    /\ RefCandidates(name)[i] \in DOMAIN m
    /\ \A j \in 1..(i - 1) : RefCandidates(name)[j] \notin DOMAIN m

RefVerified ==
    \E i \in 1..Len(last.cmds) : last.cmds[i].cmd = "rev-parse -q --verify"

(* C11: Ref(name) returns the first cache hit among name, refs/heads/name, *)
(* refs/tags/name and refs/remotes/name in that order; the raw verification *)
(* runs only when none of them is in the cache, and the lookup fails only  *)
(* when that verification fails too.                                       *)
C11_RefLookupOrder ==
    RefCalled =>
        LET name == last.args[1]
            hit == \E i \in 1..4 : RefCandidates(name)[i] \in DOMAIN refs.m
        IN /\ refs.loaded
           /\ hit => /\ ~last.ret.err
                     /\ ~RefVerified
                     /\ \E i \in 1..4 : /\ RefFirstIn(refs.m, name, i)
                                        /\ last.ret.ref = refs.m[RefCandidates(name)[i]]
           /\ ~hit => /\ RefVerified
                      /\ ~last.ret.err => /\ last.ret.ref = MkRef(name, name)
                                          /\ GitResolve(gitRefs, gitHead, name).ok
           /\ last.ret.err => ~hit /\ RefVerified

\* A lookup of a short name that is a branch, a tag and a remote ref at once.
C11_Witness ==
    /\ RefCalled
    /\ last.args[1] = NameA
    /\ RefsHeads \o NameA \in DOMAIN refs.m
    /\ RefsTags \o NameA \in DOMAIN refs.m
    /\ RefsRemotes \o NameA \in DOMAIN refs.m
    /\ ~last.ret.err
    /\ last.ret.ref.Path = RefsHeads \o NameA

-----------------------------------------------------------------------------
(* Ref.Delete: what the record of the last finished call shows.            *)

DeleteCalled == last.op = "Delete"

\* The path of the Ref that Delete was called on.
DeletePath == last.pre.hd.Path

DeletePathIs(prefix) ==
    /\ Len(DeletePath) >= Len(prefix)
    /\ SubSeq(DeletePath, 1, Len(prefix)) = prefix

(* C12: Delete() on a remote-tracking ref or on HEAD returns an error,     *)
(* issues no command and leaves the ref cache alone; Delete() on a ref     *)
(* that is neither branch, tag, remote ref nor HEAD faults, and issues no  *)
(* command either.                                                         *)
C12_DeletePreconditions ==
    DeleteCalled =>
        /\ (DeletePathIs(RefsRemotes) \/ DeletePath = HEAD) =>
               /\ last.fault = "none"
               /\ last.ret.err
               /\ last.cmds = <<>>
               /\ refs = last.pre.refs
               /\ gitRefs = last.pre.gitRefs
        /\ (/\ ~DeletePathIs(RefsRemotes) /\ DeletePath # HEAD
            /\ ~DeletePathIs(RefsHeads) /\ ~DeletePathIs(RefsTags)) =>
               /\ last.fault = "panic"
               /\ last.cmds = <<>>
               /\ refs = last.pre.refs
               /\ gitRefs = last.pre.gitRefs

\* Delete was refused on a remote-tracking ref that came out of a loaded cache.
C12_Witness ==
    /\ DeleteCalled
    /\ DeletePathIs(RefsRemotes)
    /\ last.pre.refs.loaded
    /\ DeletePath \in DOMAIN refs.m
    /\ last.fault = "none"
    /\ last.ret.err
    /\ last.cmds = <<>>

(* C13: after Delete() of a branch or tag succeeds the deleted ref is no   *)
(* longer in the ref cache, and no other entry has been removed.           *)
C13_DeleteRemovesEntry ==
    (DeleteCalled /\ last.fault = "none" /\ ~last.ret.err) =>
        /\ DeletePath \notin DOMAIN refs.m
        /\ DOMAIN refs.m = DOMAIN last.pre.refs.m \ {DeletePath}
        /\ \A p \in DOMAIN refs.m : refs.m[p] = last.pre.refs.m[p]

-----------------------------------------------------------------------------
(* The classification of a Ref by its path, over paths of every shape.     *)

MaxPathLen == 5

PathAtoms == {"refs", Slash, "heads", "tags", "remotes", "HEAD", "stash"}

\* The paths of at most n atoms.
RECURSIVE PathsUpTo(_)
PathsUpTo(n) ==
    IF n = 0 THEN {<<>>}
    ELSE LET shorter == PathsUpTo(n - 1) IN
         shorter \cup {Append(p, a) : p \in {q \in shorter : Len(q) = n - 1}, a \in PathAtoms}

\* The four classifying methods of the held Ref.
Classify(r) ==
    [local |-> IsLocal(r), remote |-> IsRemote(r), tag |-> IsTag(r), head |-> IsHead(r)]

DoClassify ==
    /\ Idle
    /\ last.op = "none"
    /\ last' = [NoLast EXCEPT !.op = "Classify", !.args = <<hd.Path>>,
                              !.ret = Classify(HeldRef(Machine))]
    /\ UNCHANGED <<cfg, gitConfig, refs, gitRefs, gitHead, hd, mr, pc, fetch, workers, fault>>

InitClassify ==
    /\ cfg = NilCache
    /\ gitConfig = EmptyMap
    /\ refs = NilCache
    /\ gitRefs = EmptyMap
    /\ gitHead = [sym |-> TRUE, val |-> EmptyStr]
    /\ hd \in {[set |-> TRUE, SHA |-> S("c1"), Path |-> p, live |-> FALSE] :
                  p \in PathsUpTo(MaxPathLen)}
    /\ InitIdle

NextClassify == DoClassify

SpecClassify == InitClassify /\ [][NextClassify]_vars

\* How many of the four classes the last classified path is in.
ClassCount ==
    LET c == last.ret IN
    (IF c.local THEN 1 ELSE 0) + (IF c.remote THEN 1 ELSE 0)
        + (IF c.tag THEN 1 ELSE 0) + (IF c.head THEN 1 ELSE 0)

(* C14: every ref path is in at most one of the classes local, remote, tag *)
(* and head, and in exactly one when it begins with "refs/" or is "HEAD".  *)
C14_ClassificationExclusive ==
    last.op = "Classify" =>
        LET p == last.args[1] IN
        /\ ClassCount <= 1
        /\ ((Len(p) >= 2 /\ SubSeq(p, 1, 2) = <<"refs", Slash>>) \/ p = <<"HEAD">>) =>
               ClassCount = 1

-----------------------------------------------------------------------------
(* Ref.Contains: what the record of the last finished call shows.          *)

ContainsCalled == last.op = "Contains"

\* The commits in the history of other that are not in the history of this ref.
ContainsMissing ==
    {c \in Commits : /\ (c = last.args[1].SHA \/ last.args[1].SHA = S("c3"))
                     /\ ~(c = last.pre.hd.SHA \/ last.pre.hd.SHA = S("c3"))}

(* C15: Contains returns (true, nil) without issuing a command whenever    *)
(* the two SHAs are equal, so r.Contains(r) is always true; otherwise it   *)
(* issues the one query and returns (false, err) when the query fails and  *)
(* else true iff no commit is reachable from other but not from this ref.  *)
C15_Contains ==
    ContainsCalled =>
        LET r == last.pre.hd
            other == last.args[1]
        IN /\ last.fault = "none"
           /\ other.SHA = r.SHA =>
                  /\ last.ret = [err |-> FALSE, ok |-> TRUE]
                  /\ last.cmds = <<>>
           /\ other.SHA # r.SHA =>
                  /\ last.cmds = <<Cmd("rev-list", <<other.SHA, <<"^">> \o r.SHA>>)>>
                  /\ last.ret.err => ~last.ret.ok
                  /\ ~last.ret.err => (last.ret.ok <=> ContainsMissing = {})

\* A ref asked whether it contains itself.
C15_Witness ==
    /\ ContainsCalled
    /\ last.args[1] = MkRef(last.pre.hd.SHA, last.pre.hd.Path)
    /\ IsLocal(last.args[1])
    /\ last.ret.ok
    /\ last.cmds = <<>>

-----------------------------------------------------------------------------
(* refs.go: the tracking of a remote by a branch, kept in the config.      *)

\* "branch." + r.Name()
TrackSection(r) == <<"branch", Dot>> \o Name(r)

TrackRemoteKey(r) == TrackSection(r) \o <<Dot, "remote">>

TrackMergeKey(r) == TrackSection(r) \o <<Dot, "merge">>

\* A tracking that records the short name of the branch.
TrackMergeValueShort(r) == Name(r)

\* The value TrackRemote gives branch.<name>.merge.
TrackMergeValue(r) == r.Path

\* fmt.Errorf of the tracking methods, told apart by a word.
TrackErr(why) == [err |-> TRUE, msg |-> S(why)]

\* Ref.TrackRemote of the held Ref up to its two Sets: the test that the Ref is
\* a branch, the two Gets, the comparison and maybeKillSection.  The call has
\* returned, or ret is NoRet and the Sets are still to come.
TrackBegin(st, remote, fails) ==
    LET r == HeldRef(st)
        s1 == Get(st, TrackRemoteKey(r), fails)
        mer == Lookup(s1.cfg.m, TrackMergeKey(r))
    IN IF ~IsLocal(r) THEN Return(st, TrackErr("not-a-branch"))
       ELSE IF s1.fault # "none" THEN s1
       ELSE IF s1.ret.f /\ mer.f /\ s1.ret.v = remote /\ mer.v = r.Path
            THEN Return(s1, NilErr)
       ELSE IF s1.ret.f \/ mer.f
            THEN Return(maybeKillSection(s1, TrackSection(r), fails), NoRet)
       ELSE Return(s1, NoRet)

\* The call goes on with its Sets.
TrackPending(st) == st.fault = "none" /\ st.ret = NoRet

\* r.r.Set(section+".remote", remote)
TrackSetRemote(st, remote, fails) ==
    IF TrackPending(st)
    THEN Return(Set(st, TrackRemoteKey(HeldRef(st)), remote, fails), NoRet)
    ELSE st

\* r.r.Set(section+".merge", r.Path) and return nil
TrackSetMerge(st, fails) ==
    IF TrackPending(st)
    THEN Return(Set(st, TrackMergeKey(HeldRef(st)), TrackMergeValue(HeldRef(st)), fails),
                NilErr)
    ELSE st

\* Ref.Tracks of the held Ref: ret is [err, remote].
Tracks(st, fails) ==
    LET r == HeldRef(st)
        s1 == Get(st, TrackRemoteKey(r), fails)
    IN IF ~IsLocal(r) THEN Return(st, [err |-> TRUE, remote |-> EmptyStr])
       ELSE IF s1.fault # "none" THEN s1
       ELSE IF s1.ret.f THEN Return(s1, [err |-> FALSE, remote |-> s1.ret.v])
       ELSE Return(s1, [err |-> TRUE, remote |-> EmptyStr])

\* "refs/remotes/" + remote + "/" + r.Name()
RemoteRefName(r, remote) == RefsRemotes \o remote \o <<Slash>> \o Name(r)

\* Ref.RemoteBranch of the held Ref: it reads the cache as it is.
RemoteBranch(st, remote) ==
    LET r == HeldRef(st)
        remoteName == RemoteRefName(r, remote)
    IN IF ~IsLocal(r) THEN Return(st, NilRefRet(TRUE))
       ELSE IF remoteName \in DOMAIN st.refs.m
       THEN Return(st, [err |-> FALSE, ref |-> st.refs.m[remoteName], cached |-> TRUE,
                        isnil |-> FALSE])
       ELSE Return(st, NilRefRet(TRUE))

\* Ref.TrackedRef of the held Ref.
TrackedRef(st, fails) ==
    LET s1 == Tracks(st, fails) IN
    IF s1.fault # "none" THEN s1
    ELSE IF s1.ret.err THEN Return(s1, NilRefRet(TRUE))
    ELSE RemoteBranch(s1, s1.ret.remote)

\* Repo.HasRef
HasRef(st, ref, fails) ==
    LET s1 == loadRefs(st, fails) IN
    IF s1.fault # "none" THEN s1 ELSE Return(s1, [ok |-> ref \in DOMAIN s1.refs.m])

\* Ref.HasRemoteRef of the held Ref.
HasRemoteRef(st, remote, fails) ==
    LET r == HeldRef(st) IN
    IF ~IsLocal(r) THEN Return(st, [ok |-> FALSE])
    ELSE HasRef(st, RemoteRefName(r, remote), fails)

-----------------------------------------------------------------------------
(* Tracking: branch a, the remotes o and p, and the config of branch a.    *)

RemoteO == S("o")
RemoteP == S("p")

\* The config store with the given values; the empty string stands for no value.
\* The key branch.ab.remote is in another section whose name begins alike.
TrackStore(rem, mer, oth) ==
    LET a == MkRef(S("c1"), RefsHeads \o NameA)
        kr == TrackRemoteKey(a)
        km == TrackMergeKey(a)
        ko == <<"branch", Dot, "a", "b", Dot, "remote">>
        ks == (IF rem # EmptyStr THEN {kr} ELSE {}) \cup (IF mer # EmptyStr THEN {km} ELSE {})
                  \cup (IF oth THEN {ko} ELSE {})
    IN [k \in ks |-> IF k = kr THEN rem ELSE IF k = km THEN mer ELSE RemoteO]

TrackStores ==
    {TrackStore(rem, mer, oth) : rem \in {EmptyStr, RemoteO, RemoteP},
                                 mer \in {EmptyStr, RefsHeads \o NameA, S("x")},
                                 oth \in BOOLEAN}

\* Branch a, with or without its remote-tracking ref at o.
TrackRefStores ==
    {[p \in {RefsHeads \o NameA} \cup ps |-> IF p = RefsHeads \o NameA THEN S("c1") ELSE S("c2")] :
        ps \in SUBSET {RefsRemotes \o RemoteO \o <<Slash>> \o NameA}}

\* What the caller asks Repo.Ref for: the branch, the remote-tracking ref.
TrackLookupNames == {NameA, RemoteO \o <<Slash>> \o NameA}

\* An oracle that fails at most one of the first n commands.
OneFailure(n) == {{}} \cup {{i} : i \in 1..n}

\* What a tracking call keeps of the state it was called in, the call before it included.
TrackPre ==
    [cfg |-> cfg, gitConfig |-> gitConfig, refs |-> refs, gitRefs |-> gitRefs, hd |-> hd,
     prev |-> [op |-> last.op, args |-> last.args, fault |-> last.fault, ret |-> last.ret]]

DoTrackRef ==
    \E name \in TrackLookupNames, fails \in OneFailure(2) :
        Idle /\ CommitWith(Hold(Ref(Machine, name, fails)), "Ref", <<name>>, TrackPre)

DoTrackReloadRefs ==
    Idle /\ refs.loaded /\ CommitWith(ReloadRefs(Machine), "ReloadRefs", <<>>, TrackPre)

\* Ref.TrackRemote, stage by stage.  It issues at most seven commands: the load
\* of the config, and for each of the two keys an unset, a section removal and
\* an add.
DoTrackRemote ==
    \E remote \in {RemoteO, RemoteP}, fails \in OneFailure(7) :
        /\ Idle
        /\ hd.set
        /\ \E s1 \in {TrackBegin(Machine, remote, fails)} :
           \E s2 \in {TrackSetRemote(s1, remote, fails)} :
           \E s3 \in {TrackSetMerge(s2, fails)} :
               CommitWith(s3, "TrackRemote", <<remote>>, TrackPre)

DoTracks ==
    \E fails \in OneFailure(1) :
        Idle /\ hd.set /\ CommitWith(Tracks(Machine, fails), "Tracks", <<>>, TrackPre)

DoTrackedRef ==
    \E fails \in OneFailure(1) :
        Idle /\ hd.set /\ CommitWith(TrackedRef(Machine, fails), "TrackedRef", <<>>, TrackPre)

DoHasRemoteRef ==
    \E remote \in {RemoteO, RemoteP}, fails \in OneFailure(1) :
        /\ Idle
        /\ hd.set
        /\ CommitWith(HasRemoteRef(Machine, remote, fails), "HasRemoteRef", <<remote>>, TrackPre)

InitTrack ==
    /\ cfg = NilCache
    /\ gitConfig \in TrackStores
    /\ refs = NilCache
    /\ gitRefs \in TrackRefStores
    /\ gitHead = [sym |-> TRUE, val |-> RefsHeads \o NameA]
    /\ hd = NoHandle
    /\ InitIdle

NextTrack ==
    \/ DoTrackRef
    \/ DoTrackReloadRefs
    \/ DoTrackRemote
    \/ DoTracks
    \/ DoTrackedRef
    \/ DoHasRemoteRef

SpecTrack == InitTrack /\ [][NextTrack]_vars

-----------------------------------------------------------------------------
(* Tracking: what the record of the last finished call shows.              *)

\* The Ref the call was made on is a branch; its short name and its two keys.
TrackedIsBranch ==
    /\ Len(last.pre.hd.Path) > 4
    /\ SubSeq(last.pre.hd.Path, 1, 4) = <<"refs", Slash, "heads", Slash>>

TrackedName == SubSeq(last.pre.hd.Path, 5, Len(last.pre.hd.Path))

TrackedRemoteKey == <<"branch", Dot>> \o TrackedName \o <<Dot, "remote">>

TrackedMergeKey == <<"branch", Dot>> \o TrackedName \o <<Dot, "merge">>

TrackRemoteReturned ==
    last.op = "TrackRemote" /\ last.fault = "none" /\ TrackedIsBranch

\* The call before the last one was the same TrackRemote, and it returned.
TrackRemoteRepeated ==
    /\ TrackRemoteReturned
    /\ last.pre.prev.op = "TrackRemote"
    /\ last.pre.prev.fault = "none"
    /\ last.pre.prev.args = last.args

(* C16: after a TrackRemote(remote) that returns on a branch,              *)
(* branch.<name>.remote is remote and branch.<name>.merge is the full path *)
(* of the branch, in the cache and in the store; a second TrackRemote with *)
(* the same remote right after it issues no command and leaves the cache   *)
(* and the store as the first call left them.                              *)
C16_IdempotentTracking ==
    TrackRemoteReturned =>
        /\ ~last.ret.err
        /\ cfg.loaded
        /\ {TrackedRemoteKey, TrackedMergeKey} \subseteq DOMAIN cfg.m
        /\ cfg.m[TrackedRemoteKey] = last.args[1]
        /\ cfg.m[TrackedMergeKey] = last.pre.hd.Path
        /\ {TrackedRemoteKey, TrackedMergeKey} \subseteq DOMAIN gitConfig
        /\ gitConfig[TrackedRemoteKey] = last.args[1]
        /\ gitConfig[TrackedMergeKey] = last.pre.hd.Path
        /\ TrackRemoteRepeated =>
               /\ last.cmds = <<>>
               /\ cfg = last.pre.cfg
               /\ gitConfig = last.pre.gitConfig

\* The second of two TrackRemote(p) in a row, on a branch.
C16_Witness ==
    /\ TrackRemoteRepeated
    /\ last.args[1] = RemoteP
    /\ ~last.ret.err
    /\ gitConfig[TrackedRemoteKey] = RemoteP

(* C17: Tracks() on a branch returns the remote iff both                   *)
(* branch.<name>.remote and branch.<name>.merge are set, and an error      *)
(* otherwise; on a ref that is not a branch it always returns an error.    *)
C17_Tracks ==
    (last.op = "Tracks" /\ last.fault = "none") =>
        /\ ~TrackedIsBranch => last.ret.err
        /\ TrackedIsBranch =>
               /\ ~last.ret.err <=>
                      {TrackedRemoteKey, TrackedMergeKey} \subseteq DOMAIN cfg.m
               /\ ~last.ret.err => last.ret.remote = cfg.m[TrackedRemoteKey]

(* C18: TrackedRef() on a branch succeeds exactly when Tracks succeeds     *)
(* with remote R and refs/remotes/R/<name> is among the refs of the        *)
(* repository, whatever the state of the ref cache, and then returns that  *)
(* ref.                                                                    *)
C18_TrackedRef ==
    (last.op = "TrackedRef" /\ last.fault = "none" /\ TrackedIsBranch) =>
        LET tracks == TrackedRemoteKey \in DOMAIN cfg.m
            path == RefsRemotes \o cfg.m[TrackedRemoteKey] \o <<Slash>> \o TrackedName
        IN /\ ~last.ret.err <=> (tracks /\ path \in DOMAIN gitRefs)
           /\ ~last.ret.err => last.ret.ref = MkRef(gitRefs[path], path)

-----------------------------------------------------------------------------
(* Find and Unset: what the record of the last finished call shows.        *)

\* Key k starts with prefix p.
KeyStartsWith(k, p) == Len(k) >= Len(p) /\ SubSeq(k, 1, Len(p)) = p

\* The cache mirrors the store.
ConfigMirrors(cache, store) ==
    /\ cache.loaded
    /\ DOMAIN cache.m = DOMAIN store
    /\ \A k \in DOMAIN store : cache.m[k] = store[k]

(* C19: Find(prefix) loads the cache if there is none and returns exactly  *)
(* the pairs of the config whose key starts with prefix; it leaves the     *)
(* store and the contents of a loaded cache as they were.                  *)
C19_FindPrefix ==
    (last.op = "Find" /\ last.fault = "none") =>
        /\ cfg.loaded
        /\ DOMAIN last.ret = {k \in DOMAIN cfg.m : KeyStartsWith(k, last.args[1])}
        /\ \A k \in DOMAIN last.ret : last.ret[k] = cfg.m[k]
        /\ gitConfig = last.pre.gitConfig
        /\ IF last.pre.cfg.loaded THEN cfg = last.pre.cfg /\ last.cmds = <<>>
           ELSE ConfigMirrors(cfg, gitConfig)

\* A Find on an unloaded cache that returns some pairs of the config, not all.
C19_Witness ==
    /\ last.op = "Find"
    /\ last.fault = "none"
    /\ ~last.pre.cfg.loaded
    /\ DOMAIN last.ret # {}
    /\ DOMAIN last.ret # DOMAIN cfg.m
    /\ KeyUserName \in DOMAIN cfg.m

\* The section that owns key k: k without its last segment.
OwningSection(k) == SubSeq(k, 1, Len(k) - 2)

UnsetIssued(name) == \E i \in 1..Len(last.cmds) : last.cmds[i].cmd = name

(* C20: Unset(k) of a present key issues the section removal for the       *)
(* section of k exactly when no key of that section remains, keys of       *)
(* another section whose name begins alike not counting; Unset of an       *)
(* absent key issues no command beyond the load of the cache.              *)
C20_SectionPruning ==
    (last.op = "Unset" /\ last.fault = "none") =>
        LET k == last.args[1]
            present == IF last.pre.cfg.loaded THEN k \in DOMAIN last.pre.cfg.m
                       ELSE k \in DOMAIN last.pre.gitConfig
            remaining == {x \in DOMAIN cfg.m : OwningSection(x) = OwningSection(k)}
        IN /\ present =>
                  /\ UnsetIssued("config --unset-all")
                  /\ UnsetIssued("config --remove-section") <=> remaining = {}
           /\ ~present =>
                  \A i \in 1..Len(last.cmds) : last.cmds[i].cmd = "config -l -z"

-----------------------------------------------------------------------------
(* remote.go: adding, renaming, removing and pruning remotes.              *)

\* The section git keeps a remote in.
RemoteSection(n) == <<"remote", Dot>> \o n

\* git knows a remote by its section.
GitHasRemote(store, n) == \E k \in DOMAIN store : SectionOf(k) = RemoteSection(n)

\* `git remote add name url` refuses a name it has; it writes the url (and a
\* refspec, which no operation here reads).
GitRemoteAddOk(store, n) == ~GitHasRemote(store, n)

GitRemoteAdd(store, n, url) == MapPut(store, RemoteURLKey(n), url)

\* `git remote rm name` refuses a name it does not have; it removes the section.
GitRemoteRmOk(store, n) == GitHasRemote(store, n)

GitRemoteRm(store, n) == GitRemoveSection(store, RemoteSection(n))

\* `git remote rename old new` refuses an unknown old and a known new name; it
\* moves the section.
GitRemoteRenameOk(store, old, new) == GitHasRemote(store, old) /\ ~GitHasRemote(store, new)

GitRemoteRename(store, old, new) ==
    LET moved == {k \in DOMAIN store : SectionOf(k) = RemoteSection(old)}
        last_(k) == SubSeq(k, Len(RemoteSection(old)) + 1, Len(k))
        rest == GitRemoveSection(store, RemoteSection(old))
    IN [x \in DOMAIN rest \cup {RemoteSection(new) \o last_(k) : k \in moved} |->
           IF x \in DOMAIN rest THEN rest[x]
           ELSE store[CHOOSE k \in moved : RemoteSection(new) \o last_(k) = x]]

\* `git remote set-url name url` refuses a name it does not have.
GitRemoteSetURLOk(store, n) == GitHasRemote(store, n)

GitRemoteSetURL(store, n, url) == MapPut(store, RemoteURLKey(n), url)

\* errors.New / fmt.Errorf of a precondition that does not hold.
RemoteErr(why) == [err |-> TRUE, msg |-> S(why)]

\* remotes[name]: the zero value "" for a name the map does not have.
RemoteURL(m, n) == Lookup(m, n).v

\* HasRemote: Get("remote." + remote + ".url")
HasRemote(st, n, fails) ==
    LET s1 == Get(st, RemoteURLKey(n), fails) IN
    IF s1.fault # "none" THEN s1 ELSE Return(s1, s1.ret.f)

\* The end of the four mutations: run the command; r.cfg = nil only after success.
RemoteRun(st, c, gitOk, store, fails) ==
    LET ok == NextOk(st, fails)
        s1 == Issue(st, c)
    IN IF ok /\ gitOk
       THEN Return([s1 EXCEPT !.gitConfig = store, !.cfg = NilCache], NilErr)
       ELSE Return(s1, CmdErr)

AddRemote(st, n, url, fails) ==
    LET s1 == Remotes(st, fails) IN
    IF s1.fault # "none" THEN s1
    ELSE IF RemoteURL(s1.ret, n) # EmptyStr THEN Return(s1, RemoteErr("already has a remote"))
    ELSE RemoteRun(s1, Cmd("remote add", <<n, url>>), GitRemoteAddOk(s1.gitConfig, n),
                   GitRemoteAdd(s1.gitConfig, n, url), fails)

RenameRemote(st, old, nuevo, fails) ==
    LET s1 == HasRemote(st, old, fails) IN
    IF s1.fault # "none" THEN s1
    ELSE IF ~s1.ret THEN Return(s1, RemoteErr("does not exist"))
    ELSE LET s2 == HasRemote(s1, nuevo, fails) IN
         IF s2.fault # "none" THEN s2
         ELSE IF s2.ret THEN Return(s2, RemoteErr("already exists"))
         ELSE RemoteRun(s2, Cmd("remote rename", <<old, nuevo>>),
                        GitRemoteRenameOk(s2.gitConfig, old, nuevo),
                        GitRemoteRename(s2.gitConfig, old, nuevo), fails)

ZapRemote(st, n, fails) ==
    LET s1 == Remotes(st, fails) IN
    IF s1.fault # "none" THEN s1
    ELSE IF RemoteURL(s1.ret, n) = EmptyStr
         THEN Return(s1, RemoteErr("does not have a remote"))
    ELSE RemoteRun(s1, Cmd("remote rm", <<n>>), GitRemoteRmOk(s1.gitConfig, n),
                   GitRemoteRm(s1.gitConfig, n), fails)

SetRemoteURL(st, n, url, fails) ==
    LET s1 == Remotes(st, fails) IN
    IF s1.fault # "none" THEN s1
    ELSE IF RemoteURL(s1.ret, n) = EmptyStr
         THEN Return(s1, RemoteErr("does not have a remote"))
    ELSE RemoteRun(s1, Cmd("remote set-url", <<n, url>>), GitRemoteSetURLOk(s1.gitConfig, n),
                   GitRemoteSetURL(s1.gitConfig, n, url), fails)

\* ProbeURL: `git ls-remote url refs/heads/master`
ProbeURL(st, url, fails) ==
    LET ok == NextOk(st, fails)
        s1 == Issue(st, Cmd("ls-remote", <<url>>))
    IN Return(s1, ok)

\* A prune that zaps whatever it probed.
PruneZapsProbed(found) == TRUE

\* !found: the remote is zapped only when its probe failed.
PruneZaps(found) == ~found

\* The loop of PruneRemotes over the map Remotes() returned, in the order the
\* range delivers it.
RECURSIVE PruneLoop(_, _, _, _, _)
PruneLoop(st, remotes, order, res, fails) ==
    IF Len(order) = 0 THEN Return(st, res)
    ELSE LET n == order[1]
             s1 == ProbeURL(st, remotes[n], fails)
         IN IF ~PruneZaps(s1.ret)
            THEN PruneLoop(s1, remotes, Tail(order), MapPut(res, n, FALSE), fails)
            ELSE LET s2 == ZapRemote(s1, n, fails) IN
                 IF s2.fault # "none" THEN s2
                 ELSE PruneLoop(s2, remotes, Tail(order),
                                MapPut(res, n, ~s2.ret.err), fails)

\* PruneRemotes: one outcome per order of the range.
PruneRemotes(st, fails) ==
    LET s1 == Remotes(st, fails) IN
    IF s1.fault # "none" THEN {s1}
    ELSE {PruneLoop(s1, s1.ret, order, EmptyMap, fails) : order \in Orderings(DOMAIN s1.ret)}

-----------------------------------------------------------------------------
(* The remote operations a caller can invoke.                              *)

\* A remote name that holds a dot.
RemoteDotted == <<"A", Dot, "B">>

RemoteOpNames == {S("A"), S("B"), RemoteDotted}

RemoteURLs == {S("x"), S("y")}

\* The configuration that holds the remotes of f, each with its url.
RemoteStore(f) == [k \in {RemoteURLKey(n) : n \in DOMAIN f} |->
                      f[CHOOSE n \in DOMAIN f : RemoteURLKey(n) = k]]

\* Every configuration with some of the remotes, each with one of the urls.
RemoteStores ==
    {RemoteStore(f) : f \in UNION {[ns -> RemoteURLs] : ns \in SUBSET RemoteOpNames}}

\* What a remote call keeps of the state it was called in: the cache, the
\* store, and the mutation that had just succeeded, if one had.
RemotePre ==
    [cfg |-> cfg, gitConfig |-> gitConfig,
     after |-> IF /\ last.op \in {"AddRemote", "RenameRemote", "ZapRemote", "SetRemoteURL"}
                  /\ last.fault = "none"
                  /\ ~last.ret.err
               THEN <<last.op>> \o last.args ELSE <<>>]

DoRemotes ==
    \E fails \in OneFailure(1) :
        Idle /\ CommitWith(Remotes(Machine, fails), "Remotes", <<>>, RemotePre)

DoHasRemote ==
    \E n \in RemoteOpNames, fails \in OneFailure(1) :
        Idle /\ CommitWith(HasRemote(Machine, n, fails), "HasRemote", <<n>>, RemotePre)

DoRemoteReloadConfig ==
    Idle /\ CommitWith(ReloadConfig(Machine), "ReloadConfig", <<>>, RemotePre)

DoAddRemote ==
    \E n \in RemoteOpNames, url \in RemoteURLs, fails \in OneFailure(2) :
        Idle /\ CommitWith(AddRemote(Machine, n, url, fails), "AddRemote", <<n, url>>, RemotePre)

DoRenameRemote ==
    \E old \in RemoteOpNames, nuevo \in RemoteOpNames, fails \in OneFailure(2) :
        Idle /\ CommitWith(RenameRemote(Machine, old, nuevo, fails), "RenameRemote",
                           <<old, nuevo>>, RemotePre)

DoZapRemote ==
    \E n \in RemoteOpNames, fails \in OneFailure(2) :
        Idle /\ CommitWith(ZapRemote(Machine, n, fails), "ZapRemote", <<n>>, RemotePre)

DoSetRemoteURL ==
    \E n \in RemoteOpNames, url \in RemoteURLs, fails \in OneFailure(2) :
        Idle /\ CommitWith(SetRemoteURL(Machine, n, url, fails), "SetRemoteURL",
                           <<n, url>>, RemotePre)

\* PruneRemotes over two remotes issues at most six commands: the dump, the
\* probe and the removal of one remote, the probe of the other, the dump again
\* and its removal.  The record of the call keeps which of them failed.
DoPruneRemotes ==
    \E fails \in SUBSET (1..6) :
        /\ Idle
        /\ \E s1 \in PruneRemotes(Machine, fails) :
               CommitWith(s1, "PruneRemotes", <<fails>>, RemotePre)

InitRemote ==
    /\ cfg = NilCache
    /\ gitConfig \in RemoteStores
    /\ InitRest

NextRemote ==
    \/ DoRemotes
    \/ DoHasRemote
    \/ DoRemoteReloadConfig
    \/ DoAddRemote
    \/ DoRenameRemote
    \/ DoZapRemote
    \/ DoSetRemoteURL

SpecRemote == InitRemote /\ [][NextRemote]_vars

NextPrune == DoRemotes \/ DoRemoteReloadConfig \/ DoPruneRemotes

SpecPrune == InitRemote /\ [][NextPrune]_vars

-----------------------------------------------------------------------------
(* Remotes: what the record of the last finished call shows.               *)

\* Key k has the form remote.<name>.url.
IsURLKeyOfRemote(k) ==
    /\ Len(k) >= 5
    /\ SubSeq(k, 1, 2) = <<"remote", Dot>>
    /\ SubSeq(k, Len(k) - 1, Len(k)) = <<Dot, "url">>

\* The <name> of a key remote.<name>.url.
NameOfURLKey(k) == SubSeq(k, 3, Len(k) - 2)

\* The remotes a configuration holds.
ConfiguredRemotes(m) == {NameOfURLKey(k) : k \in {x \in DOMAIN m : IsURLKeyOfRemote(x)}}

(* C21: Remotes() returns exactly one entry name -> url for every config   *)
(* key remote.<name>.url and nothing else, a <name> that holds a dot       *)
(* included.                                                               *)
C21_RemoteMap ==
    (last.op = "Remotes" /\ last.fault = "none") =>
        /\ DOMAIN last.ret = ConfiguredRemotes(cfg.m)
        /\ \A k \in DOMAIN cfg.m :
              IsURLKeyOfRemote(k) => last.ret[NameOfURLKey(k)] = cfg.m[k]

-----------------------------------------------------------------------------
(* refs.go: enumerating the refs.                                          *)

\* Repo.Refs: ReloadRefs, then the range over r.refs as ReloadRefs left it.
Refs(st) ==
    LET s1 == ReloadRefs(st) IN
    Return(s1, {s1.refs.m[k] : k \in DOMAIN s1.refs.m})

DoRefs == Idle /\ CommitWith(Refs(Machine), "Refs", <<>>, RefPre)

DoCurrentRef ==
    \E fails \in SUBSET (1..3) :
        Idle /\ CommitWith(CurrentRef(Machine, fails), "CurrentRef", <<>>, RefPre)

\* `git cherry base r`: a line "+ sha" for every commit of r that base lacks.
RECURSIVE CherryOutput(_, _, _)
CherryOutput(cs, base, r) ==
    IF cs = {} THEN EmptyStr
    ELSE LET c == CHOOSE x \in cs : TRUE IN
         (IF Reaches(r, c) /\ ~Reaches(base, c) THEN <<"+", Space>> \o c \o <<Newline>>
          ELSE EmptyStr) \o CherryOutput(cs \ {c}, base, r)

\* The loop of Cherry over the lines of the output: a raw Ref for every "+".
RECURSIVE ParseCherry(_, _)
ParseCherry(lines, res) ==
    IF Len(lines) = 0 THEN res
    ELSE LET parts == SplitN(TrimSpace(lines[1]), Space, 2) IN
         IF parts[1] = S("+")
         THEN ParseCherry(Tail(lines), Append(res, MkRef(TrimSpace(parts[2]), TrimSpace(parts[2]))))
         ELSE ParseCherry(Tail(lines), res)

\* Ref.Cherry: ret is [err, refs].
Cherry(st, r, base, fails) ==
    LET ok == /\ NextOk(st, fails)
              /\ GitResolve(st.gitRefs, st.gitHead, base.SHA).ok
              /\ GitResolve(st.gitRefs, st.gitHead, r.SHA).ok
        s1 == Issue(st, Cmd("cherry", <<base.SHA, r.SHA>>))
        out == CherryOutput(Commits, GitResolve(st.gitRefs, st.gitHead, base.SHA).sha,
                            GitResolve(st.gitRefs, st.gitHead, r.SHA).sha)
    IN IF ~ok THEN Return(s1, [err |-> TRUE, refs |-> <<>>])
       ELSE Return(s1, [err |-> FALSE, refs |-> ParseCherry(ScanLines(out), <<>>)])

DoCherry ==
    \E base \in {MkRef(S("c1"), S("c1")), MkRef(S("c3"), S("c3"))}, fails \in SUBSET {1} :
        /\ Idle
        /\ hd.set
        /\ CommitWith(Cherry(Machine, HeldRef(Machine), base, fails), "Cherry", <<base>>, RefPre)

NextRefs == NextMakeRef \/ DoRefs \/ DoCurrentRef \/ DoCherry

SpecRefs == InitMakeRef /\ [][NextRefs]_vars

\* The refs the enumeration command reports.
ReportedRefs == {MkRef(gitRefs[p], p) : p \in DOMAIN gitRefs}

(* C22: in any cache state, the slice Refs() returns contains exactly the  *)
(* refs that the enumeration command reports.                              *)
C22_RefsReturnsAll ==
    (last.op = "Refs" /\ last.fault = "none") => last.ret = ReportedRefs

-----------------------------------------------------------------------------
(* PruneRemotes: what the record of the last finished call shows.          *)

PruneReturned == last.op = "PruneRemotes" /\ last.fault = "none"

\* The configuration a read sees: the cache, or the store when there is no cache.
ConfigSeen(cache, store) == IF cache.loaded THEN cache.m ELSE store

\* The remotes known when the call started, as Remotes() gives them, and now.
PruneKnown == RemoteMap(ConfigSeen(last.pre.cfg, last.pre.gitConfig))
PruneLeft == RemoteMap(ConfigSeen(cfg, gitConfig))

\* The positions of the probes and of the deletions among the commands of the call.
PruneProbes == {i \in 1..Len(last.cmds) : last.cmds[i].cmd = "ls-remote"}
PruneDeletions == {i \in 1..Len(last.cmds) : last.cmds[i].cmd = "remote rm"}

\* Command j is the probe that deletion i follows, a reload at most between them.
PruneProbeOf(i, j) ==
    /\ j \in PruneProbes
    /\ j = i - 1 \/ (j = i - 2 /\ last.cmds[i - 1].cmd = "config -l -z")
    /\ last.cmds[i].args[1] \in DOMAIN PruneKnown
    /\ last.cmds[j].args[1] = PruneKnown[last.cmds[i].args[1]]

\* Command i of the call failed.
PruneFailed(i) == i \in last.args[1]

(* C23: PruneRemotes returns one key per remote known when the call        *)
(* started; every known remote is probed, whatever happened to the others; *)
(* a deletion is attempted exactly after a failed probe, so a remote whose *)
(* probe succeeds is never deleted; a remote's value is true iff its       *)
(* deletion was attempted and succeeded; after the call the remotes mapped *)
(* to true are gone and those mapped to false are still there.             *)
C23_PrunePerItem ==
    PruneReturned =>
        /\ DOMAIN last.ret = DOMAIN PruneKnown
        /\ Cardinality(PruneProbes) = Cardinality(DOMAIN PruneKnown)
        /\ \A i \in PruneDeletions :
              \E j \in PruneProbes : PruneProbeOf(i, j) /\ PruneFailed(j)
        /\ \A j \in PruneProbes :
              PruneFailed(j) => \E i \in PruneDeletions : PruneProbeOf(i, j)
        /\ \A n \in DOMAIN last.ret :
              /\ last.ret[n] <=> \E i \in PruneDeletions :
                                    last.cmds[i].args[1] = n /\ ~PruneFailed(i)
              /\ last.ret[n] =>
                    /\ n \notin DOMAIN PruneLeft
                    /\ RemoteURLKey(n) \notin DOMAIN gitConfig
              /\ ~last.ret[n] =>
                    /\ n \in DOMAIN PruneLeft
                    /\ PruneLeft[n] = PruneKnown[n]
                    /\ RemoteURLKey(n) \in DOMAIN gitConfig

\* A deletion failed and a later remote was still probed and deleted.
C23_Witness ==
    /\ PruneReturned
    /\ \E i, j \in PruneDeletions :
          /\ i < j
          /\ PruneFailed(i)
          /\ ~PruneFailed(j)
          /\ last.ret[last.cmds[i].args[1]] = FALSE
          /\ last.ret[last.cmds[j].args[1]] = TRUE

\* A remote whose probe succeeded is still there, next to one that was pruned.
C23_ReachableKept ==
    /\ PruneReturned
    /\ \E j \in PruneProbes : ~PruneFailed(j)
    /\ \E n, k \in DOMAIN last.ret : last.ret[n] /\ ~last.ret[k]

-----------------------------------------------------------------------------
(* The remote mutations: what the record of the last finished call shows.  *)

RemoteMutations == {"AddRemote", "RenameRemote", "ZapRemote", "SetRemoteURL"}

RemoteMutated == last.op \in RemoteMutations /\ last.fault = "none"

\* The repository had a remote named n when the call started.
RemoteExisted(n) ==
    RemoteURLKey(n) \in DOMAIN ConfigSeen(last.pre.cfg, last.pre.gitConfig)

\* The call was made with its precondition violated.
RemotePreconditionViolated ==
    \/ last.op = "AddRemote" /\ RemoteExisted(last.args[1])
    \/ last.op \in {"ZapRemote", "SetRemoteURL"} /\ ~RemoteExisted(last.args[1])
    \/ last.op = "RenameRemote" /\ ~RemoteExisted(last.args[1])
    \/ last.op = "RenameRemote" /\ RemoteExisted(last.args[2])

\* The call issued nothing but reads of the configuration.
RemoteOnlyRead == \A i \in 1..Len(last.cmds) : last.cmds[i].cmd = "config -l -z"

(* C24: AddRemote of an existing name, ZapRemote or SetRemoteURL of an     *)
(* unknown name, RenameRemote from an unknown name and RenameRemote onto   *)
(* an existing name each return an error without invoking a mutating       *)
(* command and without changing the set of remotes.                        *)
C24_RemotePreconditions ==
    (RemoteMutated /\ RemotePreconditionViolated) =>
        /\ last.ret.err
        /\ RemoteOnlyRead
        /\ gitConfig = last.pre.gitConfig

\* The store holds the change the successful call was to make.
RemoteChangeStored ==
    LET a == last.args IN
    CASE last.op = "AddRemote" ->
             RemoteURLKey(a[1]) \in DOMAIN gitConfig /\ gitConfig[RemoteURLKey(a[1])] = a[2]
      [] last.op = "SetRemoteURL" ->
             RemoteURLKey(a[1]) \in DOMAIN gitConfig /\ gitConfig[RemoteURLKey(a[1])] = a[2]
      [] last.op = "ZapRemote" -> RemoteURLKey(a[1]) \notin DOMAIN gitConfig
      [] last.op = "RenameRemote" ->
             /\ RemoteURLKey(a[1]) \notin DOMAIN gitConfig
             /\ RemoteURLKey(a[2]) \in DOMAIN gitConfig
             /\ gitConfig[RemoteURLKey(a[2])] = last.pre.gitConfig[RemoteURLKey(a[1])]

\* The call is the first read after a mutation that succeeded.
RemoteReadAfterChange ==
    /\ last.op \in {"Remotes", "HasRemote"}
    /\ last.fault = "none"
    /\ last.pre.after # <<>>

\* Remotes() shows the change c = <<op, args...>>.
RemotesReflects(m, c) ==
    CASE c[1] = "AddRemote" -> c[2] \in DOMAIN m /\ m[c[2]] = c[3]
      [] c[1] = "SetRemoteURL" -> c[2] \in DOMAIN m /\ m[c[2]] = c[3]
      [] c[1] = "ZapRemote" -> c[2] \notin DOMAIN m
      [] c[1] = "RenameRemote" -> c[2] \notin DOMAIN m /\ c[3] \in DOMAIN m

\* HasRemote(n) = has shows the change c.
HasRemoteReflects(n, has, c) ==
    CASE c[1] \in {"AddRemote", "SetRemoteURL"} -> (n = c[2] => has)
      [] c[1] = "ZapRemote" -> (n = c[2] => ~has)
      [] c[1] = "RenameRemote" -> (n = c[2] => ~has) /\ (n = c[3] => has)

(* C25: after a successful AddRemote, RenameRemote, ZapRemote or           *)
(* SetRemoteURL the config cache is absent and the store holds the change; *)
(* the next Remotes() or HasRemote re-reads the store and shows the        *)
(* change; when the external command fails the cache is not invalidated    *)
(* and the store is as it was.                                             *)
C25_RemoteInvalidation ==
    /\ (RemoteMutated /\ ~last.ret.err) => ~cfg.loaded /\ RemoteChangeStored
    /\ (RemoteMutated /\ last.ret.err /\ ~RemoteOnlyRead) =>
           /\ cfg.loaded
           /\ last.pre.cfg.loaded => cfg = last.pre.cfg
           /\ gitConfig = last.pre.gitConfig
    /\ RemoteReadAfterChange =>
           /\ last.cmds = <<Cmd("config -l -z", <<>>)>>
           /\ ConfigMirrors(cfg, gitConfig)
           /\ last.op = "Remotes" => RemotesReflects(last.ret, last.pre.after)
           /\ last.op = "HasRemote" =>
                  HasRemoteReflects(last.args[1], last.ret, last.pre.after)

-----------------------------------------------------------------------------
(* The two caches side by side: reads and reloads of the configuration and *)
(* of the refs.                                                            *)

\* An empty configuration, and one with a setting and a remote.
LazyStores == {EmptyMap, (KeyUserName :> S("x")) @@ (RemoteURLKey(S("A")) :> S("y"))}

InitLazy ==
    /\ cfg = NilCache
    /\ gitConfig \in LazyStores
    /\ refs = NilCache
    /\ gitRefs \in MakeRefStores
    /\ gitHead = [sym |-> TRUE, val |-> RefsHeads \o NameM]
    /\ hd = NoHandle
    /\ InitIdle

NextLazy ==
    \/ DoGet
    \/ DoFind
    \/ DoRemotes
    \/ DoReloadConfig
    \/ DoRef
    \/ DoCurrentRef
    \/ DoReloadRefs

SpecLazy == InitLazy /\ [][NextLazy]_vars

ConfigReads == {"Get", "Find", "Remotes"}

RefReads == {"Ref", "CurrentRef"}

\* How often the call ran the command of that name.
TimesRun(name) == Cardinality({i \in 1..Len(last.cmds) : last.cmds[i].cmd = name})

(* C26: a config read (Get, Find, Remotes) runs the configuration dump     *)
(* once when the cache is absent and not at all when it is loaded, empty   *)
(* or not, and then leaves the cache as it is; after ReloadConfig() the    *)
(* cache is absent, so that the next read parses the store anew.  The same *)
(* holds of the reads of the ref cache (Ref, CurrentRef), of the           *)
(* enumeration of the refs and of ReloadRefs().                            *)
C26_LazyLoad ==
    /\ last.op \in ConfigReads =>
           /\ TimesRun("config -l -z") = (IF last.pre.cfg.loaded THEN 0 ELSE 1)
           /\ last.fault = "none" =>
                  IF last.pre.cfg.loaded THEN cfg = last.pre.cfg
                  ELSE ConfigMirrors(cfg, gitConfig)
    /\ last.op = "ReloadConfig" => ~cfg.loaded
    /\ last.op \in RefReads =>
           /\ TimesRun("show-ref") = (IF last.pre.refs.loaded THEN 0 ELSE 1)
           /\ last.fault = "none" =>
                  IF last.pre.refs.loaded THEN refs = last.pre.refs
                  ELSE CacheMirrors(refs, gitRefs)
    /\ last.op = "ReloadRefs" => ~refs.loaded

\* A read of a cache that is loaded and empty has run no command.
C26_Witness ==
    /\ last.op \in ConfigReads
    /\ last.fault = "none"
    /\ last.pre.cfg.loaded
    /\ DOMAIN last.pre.cfg.m = {}
    /\ last.cmds = <<>>
    /\ refs.loaded

-----------------------------------------------------------------------------
(* Fetch: the workers and the channel they share.                          *)

\* A Fetch has got as far as its receive loop, over distinct remotes.
FetchOverDistinct == fetch # NoFetch /\ IsDistinct(fetch.remotes)

WorkersAt(where) == {i \in 1..Len(workers) : workers[i].pc = where}

\* Every result received came from a worker of its own, and the channel is
\* closed only when every remote has its worker and every worker has sent.
FanInSafe ==
    FetchOverDistinct =>
        /\ Len(workers) = fetch.launched
        /\ \A i \in 1..Len(workers) : workers[i].remote = fetch.remotes[i]
        /\ DOMAIN fetch.items = {workers[i].remote : i \in WorkersAt("done")}
        /\ \A i \in WorkersAt("done") : fetch.items[workers[i].remote] = workers[i].ok
        /\ (fetch.closed \/ fetch.pc = "close") =>
               /\ fetch.launched = Len(fetch.remotes)
               /\ WorkersAt("done") = 1..Len(workers)

\* Worker i is at its send.
FanInSending(i) == FetchOverDistinct /\ i \in WorkersAt("send")

FanInSent(i) == i \in WorkersAt("done")

(* C27: in every interleaving of a Fetch over distinct remotes each        *)
(* launched worker sends one result, which the aggregator records, the     *)
(* channel is closed only after every launched worker has sent, and a      *)
(* worker that has reached its send gets to complete it.                   *)
C27_FanIn ==
    /\ []FanInSafe
    /\ \A i \in 1..(MaxFetchLen + 2) : FanInSending(i) ~> FanInSent(i)

\* Fetch over two distinct remotes has closed the channel, both results in.
C27_Witness ==
    /\ FetchOverDistinct
    /\ fetch.closed
    /\ Len(workers) = 2
    /\ WorkersAt("done") = {1, 2}
    /\ workers[1].ok /\ ~workers[2].ok

-----------------------------------------------------------------------------
(* MergeWith and RebaseOnto on a Ref that is no branch, and the order of   *)
(* the rollback.                                                           *)

\* The Ref the call was made on is a local branch.
MergeOnBranch ==
    /\ Len(mr.head.Path) >= Len(RefsHeads)
    /\ SubSeq(mr.head.Path, 1, Len(RefsHeads)) = RefsHeads

(* C28: when the Ref does not already contain the target and is not a      *)
(* local branch, MergeWith/RebaseOnto returns an error without checking    *)
(* anything out and without running the integration command.               *)
C28_OnlyBranches ==
    (MergeReturned /\ ~mr.contained /\ ~MergeOnBranch) =>
        /\ mr.ret.err
        /\ ~mr.doerRan
        /\ \A i \in 1..Len(mr.cmds) : mr.cmds[i].cmd = "rev-list"
        /\ gitHead = mr.pre.gitHead
        /\ gitRefs = mr.pre.gitRefs

\* A raw Ref that does not contain the target was refused as no branch.
C28_Witness ==
    /\ MergeReturned
    /\ ~mr.contained
    /\ mr.head.SHA = mr.head.Path
    /\ mr.ret.err
    /\ mr.ret # CmdErr
    /\ Len(mr.cmds) = 1

\* The positions at which the call issued the command of that name.
MergeAt(name) == {i \in 1..Len(mr.cmds) : mr.cmds[i].cmd = name}

(* C29: after a failed integration the abort is the next command issued;   *)
(* the forced reset of the branch to its SHA of before is issued exactly   *)
(* when the abort failed, right after it; the removal of the rebase        *)
(* directory is issued exactly on the forced path of a rebase, after the   *)
(* reset; when the integration succeeded none of the three is issued.      *)
C29_RollbackOrder ==
    MergeReturned =>
        LET doer == MergeAt(mr.op \o " -q")
            abort == MergeAt(mr.op \o " --abort")
            reset == MergeAt("branch -f")
            remove == MergeAt("Remove")
        IN /\ mr.doerFailed =>
                  /\ Cardinality(doer) = 1
                  /\ abort = {i + 1 : i \in doer}
           /\ reset = (IF mr.doerFailed /\ mr.abortFailed THEN {i + 1 : i \in abort} ELSE {})
           /\ \A i \in reset : mr.cmds[i].args = <<Name(mr.head), mr.pre.hd.SHA>>
           /\ remove = (IF mr.op = "rebase" THEN {i + 1 : i \in reset} ELSE {})
           /\ ~mr.doerFailed => abort = {} /\ ~mr.abortFailed

\* A rebase that failed, whose abort failed, forced back and cleaned up.
C29_Witness ==
    /\ MergeReturned
    /\ mr.op = "rebase"
    /\ mr.doerFailed
    /\ mr.abortFailed
    /\ MergeAt("Remove") # {}

-----------------------------------------------------------------------------
(* The ref cache.                                                          *)

\* The last call returned a raw Ref.
ReturnedRaw ==
    /\ last.fault = "none"
    /\ \/ last.op \in {"Ref", "CurrentRef"} /\ ~last.ret.err /\ last.ret.ref # MkRef(EmptyStr, EmptyStr)
                                           /\ last.ret.ref.SHA = last.ret.ref.Path
       \/ last.op = "Cherry" /\ Len(last.ret.refs) > 0

(* C30: in every reachable state in which the ref cache is loaded, every   *)
(* entry is stored under its own Path and none is raw; the raw Refs that   *)
(* Ref(), CurrentRef() and Cherry() return are not in the cache.           *)
C30_RefCacheWellFormed ==
    /\ refs.loaded =>
           \A k \in DOMAIN refs.m : refs.m[k].Path = k /\ refs.m[k].SHA # refs.m[k].Path
    /\ (last.op = "Cherry" /\ last.fault = "none") =>
           /\ refs = last.pre.refs
           /\ \A i \in 1..Len(last.ret.refs) :
                 /\ last.ret.refs[i].SHA = last.ret.refs[i].Path
                 /\ last.ret.refs[i].Path \notin DOMAIN refs.m
    /\ (ReturnedRaw /\ last.op # "Cherry") => last.ret.ref.Path \notin DOMAIN refs.m

\* Cherry has returned raw Refs while the cache was loaded.
C30_Witness ==
    /\ ReturnedRaw
    /\ last.op = "Cherry"
    /\ refs.loaded
    /\ DOMAIN refs.m # {}

-----------------------------------------------------------------------------
(* config.go: parsing a dump as `git config -l -z` can write it.           *)

\* The most records a dump of the model holds.
MaxRecords == 3

\* The records of the model, each with what it stands for: kept tells whether
\* the record assigns key the value val.
DumpRecords ==
    {[raw |-> <<"k", Newline, "v">>, kept |-> TRUE, key |-> S("k"), val |-> S("v")],
     [raw |-> <<"k", Newline, "w">>, kept |-> TRUE, key |-> S("k"), val |-> S("w")],
     [raw |-> <<Space, "k", Tab, Newline, Space, "v", Space>>,
      kept |-> TRUE, key |-> S("k"), val |-> S("v")],
     [raw |-> <<"j", Newline, "v", Newline, "z">>,
      kept |-> TRUE, key |-> S("j"), val |-> <<"v", Newline, "z">>],
     [raw |-> <<"j", Newline>>, kept |-> TRUE, key |-> S("j"), val |-> EmptyStr],
     [raw |-> <<"k">>, kept |-> FALSE, key |-> EmptyStr, val |-> EmptyStr],
     [raw |-> <<Newline, "v">>, kept |-> FALSE, key |-> EmptyStr, val |-> EmptyStr],
     [raw |-> <<Space, Newline, "v">>, kept |-> FALSE, key |-> EmptyStr, val |-> EmptyStr]}

DumpInputs == UNION {[1..n -> DumpRecords] : n \in 0..MaxRecords}

\* The dump of a list of records: every record ends in a NUL.
RECURSIVE DumpOf(_)
DumpOf(recs) ==
    IF Len(recs) = 0 THEN EmptyStr
    ELSE recs[1].raw \o <<Nul>> \o DumpOf(Tail(recs))

\* read_config of the dump of the records the repository was set up with.
DoParseConfig ==
    /\ Idle
    /\ last.op = "none"
    /\ cfg' = [loaded |-> TRUE, m |-> ParseConfig(DumpOf(last.args[1]))]
    /\ last' = [last EXCEPT !.op = "read_config"]
    /\ UNCHANGED <<gitConfig, refs, gitRefs, gitHead, hd, mr, pc, fetch, workers, fault>>

InitParse ==
    /\ cfg = NilCache
    /\ gitConfig = EmptyMap
    /\ refs = NilCache
    /\ gitRefs = EmptyMap
    /\ gitHead = [sym |-> TRUE, val |-> EmptyStr]
    /\ hd = NoHandle
    /\ mr = NoMerge
    /\ pc = "idle"
    /\ fetch = NoFetch
    /\ workers = <<>>
    /\ fault = "none"
    /\ \E recs \in DumpInputs : last = [NoLast EXCEPT !.args = <<recs>>]

NextParse == DoParseConfig

SpecParse == InitParse /\ [][NextParse]_vars

\* The records of the parsed dump that assign a key.
ParsedKept == {i \in 1..Len(last.args[1]) : last.args[1][i].kept}

(* C31: loading the cache from a NUL-separated dump yields exactly the     *)
(* mapping from the trimmed key of each well-formed record to its trimmed  *)
(* value: records without the newline are skipped, records whose trimmed   *)
(* key is empty are discarded, and of several records with one key the     *)
(* last gives the value.                                                   *)
C31_DumpParsing ==
    last.op = "read_config" =>
        LET recs == last.args[1] IN
        /\ cfg.loaded
        /\ DOMAIN cfg.m = {recs[i].key : i \in ParsedKept}
        /\ \A i \in ParsedKept :
              (\A j \in ParsedKept : j > i => recs[j].key # recs[i].key) =>
                  cfg.m[recs[i].key] = recs[i].val

\* A dump with a padded record, a record without newline and a key assigned twice.
C31_Witness ==
    /\ last.op = "read_config"
    /\ Len(last.args[1]) = 3
    /\ last.args[1][1].raw = <<Space, "k", Tab, Newline, Space, "v", Space>>
    /\ last.args[1][2].raw = <<"k">>
    /\ last.args[1][3].raw = <<"k", Newline, "w">>
    /\ cfg.m = (S("k") :> S("w"))

-----------------------------------------------------------------------------
(* Remotes and its callers in a repository with a default push remote.     *)

\* remote.pushDefault, as `git config -l` writes it.
KeyPushDefault == <<"remote", Dot, "pushdefault">>

\* The configurations of the remote model, each with a default push remote.
PushStores == {s @@ (KeyPushDefault :> S("A")) : s \in RemoteStores}

\* Fetch of every remote: the empty list.
DoFetchAll == \E fails \in OneFailure(1) : FetchCall(<<>>, fails)

InitPush ==
    /\ cfg = NilCache
    /\ gitConfig \in PushStores
    /\ InitRest

NextPush ==
    \/ DoHasRemote
    \/ DoRemoteReloadConfig
    \/ DoRemotes
    \/ DoAddRemote
    \/ DoZapRemote
    \/ DoSetRemoteURL
    \/ DoPruneRemotes
    \/ DoFetchAll

SpecPush == InitPush /\ [][NextPush]_vars

\* Remotes() and the operations that call it.
RemotesCallers ==
    {"Remotes", "AddRemote", "ZapRemote", "SetRemoteURL", "PruneRemotes", "Fetch"}

(* C32: for every configuration that could be loaded, one with a key of    *)
(* fewer than three segments under "remote" included, Remotes() returns a  *)
(* map and does not fault, and neither do AddRemote, ZapRemote,            *)
(* SetRemoteURL, PruneRemotes and Fetch of the empty list.                 *)
C32_RemotesNeverFaults ==
    (last.op \in RemotesCallers /\ cfg.loaded) => last.fault = "none"

-----------------------------------------------------------------------------
(* The config cache under every operation that writes the configuration,   *)
(* all external commands succeeding.                                       *)

\* No command fails.
NoFailure == {}

\* The branch the caller holds for TrackRemote.
CoherentBranch == MkRef(S("c1"), RefsHeads \o NameA)

\* The key the caller reads and writes directly: the one TrackRemote writes too.
CoherentKeys == {TrackRemoteKey(CoherentBranch)}

\* A plain value, and one with a blank at its end.
PaddedValue == <<"y", Space>>

CoherentValues == {S("x"), PaddedValue}

\* Every one of these operations begins with r.read_config(), which does
\* nothing once the cache is loaded.
Loaded == {read_config(Machine, NoFailure)}

DoCoherentGet ==
    \E k \in CoherentKeys :
        Idle /\ \E s0 \in Loaded : \E s1 \in {Get(s0, k, NoFailure)} : Commit(s1, "Get", <<k>>)

DoCoherentFind ==
    \E prefix \in {<<"branch", Dot>>} :
        Idle /\ \E s0 \in Loaded : \E s1 \in {Find(s0, prefix, NoFailure)} : Commit(s1, "Find", <<prefix>>)

DoCoherentSet ==
    \E k \in CoherentKeys, v \in CoherentValues :
        Idle /\ \E s0 \in Loaded : \E s1 \in {Set(s0, k, v, NoFailure)} : Commit(s1, "Set", <<k, v>>)

DoCoherentUnset ==
    \E k \in CoherentKeys :
        Idle /\ \E s0 \in Loaded : \E s1 \in {Unset(s0, k, NoFailure)} : Commit(s1, "Unset", <<k>>)

DoCoherentTrackRemote ==
    \E remote \in {RemoteO} :
        /\ Idle
        /\ \E s0 \in Loaded :
           \E s1 \in {TrackBegin(s0, remote, NoFailure)} :
           \E s2 \in {TrackSetRemote(s1, remote, NoFailure)} :
           \E s3 \in {TrackSetMerge(s2, NoFailure)} :
               Commit(s3, "TrackRemote", <<remote>>)

DoCoherentAddRemote ==
    \E n \in {S("A")}, url \in {S("x")} :
        Idle /\ \E s0 \in Loaded : \E s1 \in {AddRemote(s0, n, url, NoFailure)} :
                    Commit(s1, "AddRemote", <<n, url>>)

DoCoherentRenameRemote ==
    \E old \in {S("A")}, nuevo \in {S("B")} :
        Idle /\ \E s0 \in Loaded :
                 \E s1 \in {RenameRemote(s0, old, nuevo, NoFailure)} :
                    Commit(s1, "RenameRemote", <<old, nuevo>>)

DoCoherentZapRemote ==
    \E n \in {S("B")} :
        Idle /\ \E s0 \in Loaded :
                 \E s1 \in {ZapRemote(s0, n, NoFailure)} : Commit(s1, "ZapRemote", <<n>>)

DoCoherentSetRemoteURL ==
    \E n \in {S("A")}, url \in {S("y")} :
        Idle /\ \E s0 \in Loaded :
                 \E s1 \in {SetRemoteURL(s0, n, url, NoFailure)} :
                    Commit(s1, "SetRemoteURL", <<n, url>>)

InitCoherent ==
    /\ cfg = NilCache
    /\ gitConfig \in {EmptyMap, (TrackRemoteKey(CoherentBranch) :> S("x"))}
    /\ refs = NilCache
    /\ gitRefs = (CoherentBranch.Path :> CoherentBranch.SHA)
    /\ gitHead = [sym |-> TRUE, val |-> CoherentBranch.Path]
    /\ hd = [set |-> TRUE, SHA |-> CoherentBranch.SHA, Path |-> CoherentBranch.Path,
             live |-> FALSE]
    /\ InitIdle

NextCoherent ==
    \/ DoCoherentGet
    \/ DoCoherentFind
    \/ DoCoherentSet
    \/ DoCoherentUnset
    \/ DoCoherentTrackRemote
    \/ DoCoherentAddRemote
    \/ DoCoherentRenameRemote
    \/ DoCoherentZapRemote
    \/ DoCoherentSetRemoteURL
    \/ DoReloadConfig

SpecCoherent == InitCoherent /\ [][NextCoherent]_vars

\* What a reload would load now.
ReloadedConfig == ParseConfig(ConfigDump(gitConfig))

(* C33: after any sequence of Get, Find, Set, Unset, TrackRemote,          *)
(* AddRemote, RenameRemote, ZapRemote, SetRemoteURL and ReloadConfig whose *)
(* commands succeed, a loaded config cache holds exactly what a reload     *)
(* would load from the store, so that a reload would change nothing of     *)
(* what Get and Find return.                                               *)
C33_CacheCoherent ==
    (fault = "none" /\ cfg.loaded) => cfg.m = ReloadedConfig

\* The same, as long as no value with a blank at its end was set.
C33_CoherentUnpadded ==
    (fault = "none" /\ cfg.loaded /\ \A k \in DOMAIN cfg.m : cfg.m[k] # PaddedValue)
        => cfg.m = ReloadedConfig

-----------------------------------------------------------------------------
(* The SHA of a branch after a successful integration.                     *)

\* MergeWith or RebaseOnto ran its integration command and returned nil.
MergeIntegrated ==
    MergeReturned /\ mr.doerRan /\ ~mr.doerFailed /\ mr.ret = NilErr

\* The entry the loaded ref cache serves Ref(b) from, for the branch of the handle.
CacheServes == refs.loaded /\ hd.Path \in DOMAIN refs.m

(* C34: after MergeWith or RebaseOnto succeeded on a handle of a branch,   *)
(* whichever ref cache the handle was taken from, the SHA of the handle is *)
(* the new pointer of the branch and the entry of the loaded ref cache,    *)
(* which Ref serves the branch from, has that SHA too.                     *)
C34_IntegratedSHA ==
    MergeIntegrated =>
        /\ hd.SHA = gitRefs[hd.Path]
        /\ CacheServes => refs.m[hd.Path].SHA = gitRefs[hd.Path]

-----------------------------------------------------------------------------
(* The ref CurrentRef hands to the wrapper.                                *)

\* The call stopped in a panic right after `git symbolic-ref HEAD` succeeded:
\* CurrentRef returned the nil entry of the cache with a nil error and the
\* wrapper compared the Ref with it.
ComparedWithNil ==
    /\ pc = "idle" /\ mr.op # "none" /\ mr.done
    /\ fault = "panic"
    /\ Len(mr.cmds) > 0
    /\ mr.cmds[Len(mr.cmds)].cmd = "symbolic-ref"

(* C35: CurrentRef never returns a nil ref together with a nil error, also *)
(* when HEAD names a symbolic ref that the loaded ref cache does not hold, *)
(* so the wrapper of MergeWith and RebaseOnto never compares its Ref with  *)
(* a nil ref.                                                              *)
C35_CurrentRefUsable == ~ComparedWithNil

=============================================================================
